---- MODULE Spec2Model ----
(***************************************************************************)
(* Model of the resilient fetch layer of pumpsol (utils/fetch):            *)
(* the CircuitBreaker, the RequestQueue and fetchWithRetry, as one state   *)
(* machine.  Every action is one run-to-completion step of the JavaScript  *)
(* event loop: the synchronous part of a handler up to its next await.     *)
(* Logical calls are anonymous: the queue is a sequence of call records    *)
(* and the calls whose function has been started form a bag.               *)
(***************************************************************************)
EXTENDS Integers, Sequences, FiniteSets, Bags, TLC

(* ---------------------------------------------------------------- bounds *)
\* Largest `retries` option a caller passes (callers pass 2 or 3).
MaxRetries == 2
\* Breaker scenario (Spec): logical calls outstanding at once, clock
\* advances, and the failureCount at which the upstream stops failing.
BreakerCalls == 2
BreakerTicks == 2
BreakerFailures == 6
\* Queue scenario (SpecQueue): callers beyond the maxConcurrent slots, and the
\* failureCount at which the upstream stops failing.
ExtraCalls == 2
QueueFailures == 1
\* Filter scenario (SpecFilter): evaluations of one snapshot, and minutes the
\* clock advances between them.
MaxEvaluations == 2
MaxMinutes == 1
\* Scanner scenario (SpecScan): poll ticks in progress at once, hours the
\* clock advances, and pairs in the search results of one poll.
MaxScans == 2
MaxHours == 2
MaxResponse == 2
\* Detector scenario (SpecDetect): analyses of the one token.
DetectCalls == 2
\* History scenario (SpecHistory): analyses of the two tokens, and quarters
\* of an hour the clock advances.
HistoryCalls == 3
MaxQuarters == 3
MaxMessages == 3
RaceCalls == 3
MaxTrendScans == 3
MaxSeenScans == 2
MaxStrategyAlerts == 1

(* ------------------------------------------------------ program constants *)
failureThreshold == 5
successThreshold == 2
timeout == 60000
maxConcurrent == 3
minLiquidity == 300
minVolume5m == 100
minVolume24h == 1000
maxAgeMinutes == 10
CACHE_CLEANUP_INTERVAL == 3600000
minVolumeSpike == 3
minMomentumPercent == 10
maxPullbackPercent == 40
minPriceChangePercent == 5
maxPricePoints == 200

CLOSED == "CLOSED"
OPEN == "OPEN"
HALF_OPEN == "HALF_OPEN"
CircuitState == {CLOSED, OPEN, HALF_OPEN}

\* Date.now() advances in steps of half a cooldown, so that an elapsed time
\* below, equal to and above the cooldown all occur.
TickMs == timeout \div 2
StartTime == timeout

\* What the URL constructor makes of the url argument: its protocol, or a
\* parse failure.
Urls == {"https:", "http:", "ftp:", "unparsable"}

\* How one network attempt ends: a 2xx response with a JSON body, or one of
\* the failures the try block catches.
Outcomes == {"ok", "httpError", "networkError", "aborted", "badJson"}

VARIABLES
    env,              \* the scenario's bounds: calls, ticks, failures
    circuitBreaker,   \* the CircuitBreaker singleton's fields
    requestQueue,     \* the RequestQueue singleton's fields
    active,           \* bag of the calls whose function runs or has returned
    now,              \* Date.now()
    lastReturn,       \* how this step settled a fetchWithRetry promise, if it did
    lastStarted,      \* observer: arrival ranks of the calls this step started
    halfOpenRun,      \* observer: successes recorded in HalfOpen since the last failure
    failureRun,       \* observer: failures recorded since the last success
    lastFailureAt,    \* observer: time of the most recent recorded failure
    poll,             \* index: SCANNER_MODE, whether the scanner was started, its interval timer
    scans,            \* bag of the poll ticks in progress
    seenPairs,        \* scanner: the seen-cache, a Map in insertion order
    cacheFile,        \* scanner: data/seen_pairs.json
    lastCleanup,      \* scanner: time of the last eviction sweep
    announced,        \* observer: addresses returned as new and not removed since
    scanEvent,        \* observer: what this step's fetchNewPairs did
    pair,             \* filter: the market snapshot under evaluation
    verdicts,         \* observer: the verdicts filterToken gave for it, in order
    scannerConfig,    \* config.scanner: the security-check flags and threshold
    securityVerdict,  \* observer: the last filterTokenWithSecurity call and its verdict
    feed,             \* strategies: the market numbers and limits of this run
    tokenHistory,     \* strategies: the tokenHistory Map, address -> TokenHistory
    analyses,         \* strategies: analyzeTokenStrategies calls awaiting their backfill
    strategyEvent,    \* observer: the analyzeTokenStrategies call this step completed
    sendCalls,        \* telegram: the sendWithRetry calls, message -> activation
    seenTokens,       \* trending: the seenTokens Set, in insertion order
    isFirstScan,      \* trending: the isFirstScan flag
    trendScans,       \* trending: the scanTrendingTokens activations
    trendLedger       \* observer: alerts dispatched per token key

\* The state of utils/fetch, of the scanner and of the clock.
fetchVars == <<env, circuitBreaker, requestQueue, active, lastReturn, lastStarted,
               halfOpenRun, failureRun, lastFailureAt>>
scanVars == <<poll, scans, seenPairs, cacheFile, lastCleanup, announced, scanEvent>>
filterVars == <<pair, verdicts>>
securityVars == <<scannerConfig, securityVerdict>>
strategyVars == <<feed, tokenHistory, analyses, strategyEvent>>
telegramVars == <<sendCalls>>
trendVars == <<seenTokens, isFirstScan, trendScans, trendLedger>>

vars == <<env, circuitBreaker, requestQueue, active, now, lastReturn, lastStarted,
          halfOpenRun, failureRun, lastFailureAt, poll, scans, seenPairs, cacheFile,
          lastCleanup, announced, scanEvent, pair, verdicts, scannerConfig,
          securityVerdict, feed, tokenHistory, analyses, strategyEvent, sendCalls,
          seenTokens, isFirstScan, trendScans, trendLedger>>

NoReturn == [via |-> "none", value |-> "none", urlOk |-> TRUE]

(* -------------------------------------------------------- CircuitBreaker *)
recordSuccess(cb) ==
    LET reset == [cb EXCEPT !.failureCount = 0] IN
    IF cb.state = HALF_OPEN
    THEN IF cb.successCount + 1 >= successThreshold
         THEN [reset EXCEPT !.state = CLOSED, !.successCount = 0]
         ELSE [reset EXCEPT !.successCount = cb.successCount + 1]
    ELSE reset

\* Variant: the threshold test is strict.
recordFailureStrict(cb, t) ==
    LET counted == [cb EXCEPT !.failureCount = cb.failureCount + 1,
                              !.lastFailureTime = t] IN
    IF counted.failureCount > failureThreshold
    THEN [counted EXCEPT !.state = OPEN]
    ELSE counted

recordFailure(cb, t) ==
    LET counted == [cb EXCEPT !.failureCount = cb.failureCount + 1,
                              !.lastFailureTime = t] IN
    IF counted.failureCount >= failureThreshold
    THEN [counted EXCEPT !.state = OPEN]
    ELSE counted

\* Variant: an Open breaker never lets a probe through.
canAttemptNeverProbes(cb, t) ==
    IF cb.state = OPEN THEN [ok |-> FALSE, cb |-> cb] ELSE [ok |-> TRUE, cb |-> cb]

\* Variant: an Open breaker goes HalfOpen without looking at the clock.
canAttemptNoCooldown(cb, t) ==
    IF cb.state = OPEN
    THEN [ok |-> TRUE, cb |-> [cb EXCEPT !.state = HALF_OPEN, !.successCount = 0]]
    ELSE [ok |-> TRUE, cb |-> cb]

\* Variant: the cooldown test is strict.
canAttemptStrict(cb, t) ==
    IF cb.state = OPEN
    THEN IF t - cb.lastFailureTime > timeout
         THEN [ok |-> TRUE,
               cb |-> [cb EXCEPT !.state = HALF_OPEN, !.successCount = 0]]
         ELSE [ok |-> FALSE, cb |-> cb]
    ELSE [ok |-> TRUE, cb |-> cb]

\* canAttempt returns a boolean and may move the breaker to HALF_OPEN.
canAttempt(cb, t) ==
    IF cb.state = CLOSED
    THEN [ok |-> TRUE, cb |-> cb]
    ELSE IF cb.state = OPEN
         THEN IF t - cb.lastFailureTime >= timeout
              THEN [ok |-> TRUE,
                    cb |-> [cb EXCEPT !.state = HALF_OPEN, !.successCount = 0]]
              ELSE [ok |-> FALSE, cb |-> cb]
         ELSE [ok |-> TRUE, cb |-> cb]

(* ------------------------------------------------------------ call records *)
\* A logical call: the closure pushed by add() and, once started, the state
\* of its retry loop.  networkAttempts, recorded, trial, seq and urlOk are
\* observers: fetch() invocations, the outcomes recorded to the breaker,
\* whether the call was admitted by the Open -> HalfOpen step, the arrival
\* order among the calls waiting in the queue, and whether the url had an
\* accepted scheme.
NewCall(r, isTrial, n, ok) ==
    [pc |-> "queued", retries |-> r, attempt |-> 0, result |-> "none",
     networkAttempts |-> 0, recorded |-> <<>>, trial |-> isTrial, seq |-> n,
     urlOk |-> ok]

\* The synchronous start of a call's function: the loop's first fetch().
Begin(call) ==
    [call EXCEPT !.pc = "running", !.attempt = 1, !.networkAttempts = 1, !.seq = 0]

One(call) == SetToBag({call})

(* ---------------------------------------------------------- RequestQueue *)
\* Variant: Array.prototype.pop, the last element and the rest.
pop(q) == [item |-> q[Len(q)], rest |-> SubSeq(q, 1, Len(q) - 1)]

\* Array.prototype.shift: the first element and the rest.
shift(q) == [item |-> Head(q), rest |-> Tail(q)]

\* Observer: the arrival rank of `item` among the calls of q (1 = oldest).
Rank(item, q) == 1 + Cardinality({i \in 1..Len(q) : q[i].seq < item.seq})

\* Observer: the waiting calls renumbered by arrival order, from 1.
Renumber(q) == [i \in 1..Len(q) |-> [q[i] EXCEPT !.seq = Rank(q[i], q)]]

\* Variant: the loop test admits one call too many.
RECURSIVE processLoopOffByOne(_, _, _, _)
processLoopOffByOne(q, n, started, ranks) ==
    IF Len(q) > 0 /\ n <= maxConcurrent
    THEN LET s == shift(q) IN
         processLoopOffByOne(s.rest, n + 1, started (+) One(Begin(s.item)),
                             Append(ranks, Rank(s.item, q)))
    ELSE [queue |-> q, activeRequests |-> n, started |-> started, ranks |-> ranks]

\* The while loop of process(): the queue left, the slots taken, the calls
\* whose function was started and the arrival rank each had when started.
RECURSIVE processLoop(_, _, _, _)
processLoop(q, n, started, ranks) ==
    IF Len(q) > 0 /\ n < maxConcurrent
    THEN LET s == shift(q) IN
         processLoop(s.rest, n + 1, started (+) One(Begin(s.item)),
                     Append(ranks, Rank(s.item, q)))
    ELSE [queue |-> q, activeRequests |-> n, started |-> started, ranks |-> ranks]

\* Variant: `processing` is still set when process() returns.
processNoReset(rq) ==
    IF rq.processing \/ rq.activeRequests >= maxConcurrent
    THEN [rq |-> rq, started |-> EmptyBag, ranks |-> <<>>]
    ELSE LET r == processLoop(rq.queue, rq.activeRequests, EmptyBag, <<>>) IN
         [rq |-> [queue |-> r.queue, processing |-> TRUE,
                  activeRequests |-> r.activeRequests],
          started |-> r.started, ranks |-> r.ranks]

\* process(): no await inside, so it runs to completion and `processing`
\* is false again when it returns.
process(rq) ==
    IF rq.processing \/ rq.activeRequests >= maxConcurrent
    THEN [rq |-> rq, started |-> EmptyBag, ranks |-> <<>>]
    ELSE LET r == processLoop(rq.queue, rq.activeRequests, EmptyBag, <<>>) IN
         [rq |-> [queue |-> r.queue, processing |-> FALSE,
                  activeRequests |-> r.activeRequests],
          started |-> r.started, ranks |-> r.ranks]

\* add(fn): push, then process().
add(rq, call) == process([rq EXCEPT !.queue = Append(rq.queue, call)])

(* -------------------------------------------------------- fetchWithRetry *)
\* Variant: only https is accepted.
sanitizeUrlHttpsOnly(url) == url = "https:"

\* sanitizeUrl: TRUE when it returns, FALSE when it throws 'Invalid URL'.
sanitizeUrl(url) == url \in {"https:", "http:"}

\* Variant: every failed attempt is taken for the last one.
isLastAttemptAlways(a, r) == a >= 1

\* The catch block's test for the final attempt.
isLastAttempt(a, r) == a = r

\* Observer: whether the url has one of the two accepted schemes.
ValidUrl(url) == url = "https:" \/ url = "http:"

\* Logical calls admitted and not finished.
Outstanding == Len(requestQueue.queue) + BagCardinality(active)

\* The scanner and the filter before anything has run: no cache file, no
\* poll tick, no snapshot.
NoFile == [exists |-> FALSE, valid |-> TRUE, data |-> <<>>]
NoScanEvent == [op |-> "none", before |-> <<>>, observed |-> {}, evaluated |-> {},
                gated |-> {}, returned |-> <<>>, swept |-> FALSE]
NoPair == [name |-> <<>>]

\* The security stage and the strategy engine before anything has run.
SecurityIdle == scannerConfig = <<>> /\ securityVerdict = <<>>
StrategyIdle ==
    /\ feed = <<>>
    /\ tokenHistory = <<>>
    /\ analyses = {}
    /\ strategyEvent = <<>>

\* The dispatcher and the trending scanner before anything has run.
TelegramIdle == sendCalls = <<>>
TrendIdle ==
    /\ seenTokens = <<>>
    /\ isFirstScan = TRUE
    /\ trendScans = <<>>
    /\ trendLedger = <<>>

InitWith(e) ==
    /\ poll = [mode |-> "search", started |-> FALSE, timer |-> FALSE]
    /\ scans = EmptyBag
    /\ seenPairs = <<>>
    /\ cacheFile = NoFile
    /\ lastCleanup = StartTime
    /\ announced = {}
    /\ scanEvent = NoScanEvent
    /\ pair = NoPair
    /\ verdicts = <<>>
    /\ SecurityIdle
    /\ StrategyIdle
    /\ TelegramIdle
    /\ TrendIdle
    /\ env = e
    /\ circuitBreaker = [state |-> CLOSED, failureCount |-> 0, successCount |-> 0,
                         lastFailureTime |-> 0]
    /\ requestQueue = [queue |-> <<>>, processing |-> FALSE, activeRequests |-> 0]
    /\ active = EmptyBag
    /\ now = StartTime
    /\ lastReturn = NoReturn
    /\ lastStarted = <<>>
    /\ halfOpenRun = 0
    /\ failureRun = 0
    /\ lastFailureAt = 0

(* ---------------------------------------------------------------- actions *)
\* Date.now() moves on.
Tick ==
    /\ now + TickMs <= StartTime + env.ticks * TickMs
    /\ now' = now + TickMs
    /\ lastReturn' = NoReturn
    /\ lastStarted' = <<>>
    /\ UNCHANGED <<env, circuitBreaker, requestQueue, active, halfOpenRun,
                   failureRun, lastFailureAt, scanVars, filterVars, securityVars,
                   strategyVars, telegramVars, trendVars>>

\* fetchWithRetry(url, {retries: r}) up to its return or to the first await
\* of the queued function: canAttempt, sanitizeUrl, requestQueue.add.
FetchWithRetry(url, r) ==
    LET ca == canAttempt(circuitBreaker, now)
        entersHalfOpen == ca.cb.state # circuitBreaker.state
    IN
    /\ circuitBreaker' = ca.cb
    /\ halfOpenRun' = IF entersHalfOpen THEN 0 ELSE halfOpenRun
    /\ UNCHANGED <<env, now, failureRun, lastFailureAt, scanVars, filterVars, securityVars,
                   strategyVars, telegramVars, trendVars>>
    /\ IF ~ca.ok
       THEN /\ lastReturn' = [via |-> "refused", value |-> "null",
                              urlOk |-> ValidUrl(url)]
            /\ lastStarted' = <<>>
            /\ UNCHANGED <<requestQueue, active>>
       ELSE IF ~sanitizeUrl(url)
       THEN /\ lastReturn' = [via |-> "invalidUrl", value |-> "rejected",
                              urlOk |-> ValidUrl(url)]
            /\ lastStarted' = <<>>
            /\ UNCHANGED <<requestQueue, active>>
       ELSE LET p == add(requestQueue,
                         NewCall(r, entersHalfOpen, Len(requestQueue.queue) + 1,
                                 ValidUrl(url)))
            IN
            /\ Outstanding < env.calls
            /\ requestQueue' = [p.rq EXCEPT !.queue = Renumber(p.rq.queue)]
            /\ active' = active (+) p.started
            /\ lastStarted' = p.ranks
            /\ lastReturn' = NoReturn

\* The fetch() of a running call's current attempt ends with outcome o: a
\* success records it and returns the data; a failure either records it and
\* returns null (last attempt) or sleeps before the next attempt.
AttemptEnds(call, o) ==
    /\ BagIn(call, active)
    /\ call.pc = "running"
    /\ lastStarted' = <<>>
    /\ UNCHANGED <<env, requestQueue, now, scanVars, filterVars, securityVars,
                   strategyVars, telegramVars, trendVars>>
    /\ IF o = "ok"
       THEN /\ circuitBreaker' = recordSuccess(circuitBreaker)
            /\ active' = (active (-) One(call)) (+)
                             One([call EXCEPT !.pc = "settled", !.result = "data",
                                              !.recorded = Append(@, "success")])
            /\ lastReturn' = [via |-> "completed", value |-> "data", urlOk |-> call.urlOk]
            /\ failureRun' = 0
            /\ halfOpenRun' = IF circuitBreaker.state = HALF_OPEN
                              THEN halfOpenRun + 1 ELSE halfOpenRun
            /\ UNCHANGED lastFailureAt
       ELSE IF isLastAttempt(call.attempt, call.retries)
       THEN /\ circuitBreaker.failureCount < env.failures
            /\ circuitBreaker' = recordFailure(circuitBreaker, now)
            /\ active' = (active (-) One(call)) (+)
                             One([call EXCEPT !.pc = "settled", !.result = "null",
                                              !.recorded = Append(@, "failure")])
            /\ lastReturn' = [via |-> "completed", value |-> "null", urlOk |-> call.urlOk]
            /\ failureRun' = failureRun + 1
            /\ halfOpenRun' = 0
            /\ lastFailureAt' = now
       ELSE /\ active' = (active (-) One(call)) (+) One([call EXCEPT !.pc = "sleeping"])
            /\ lastReturn' = NoReturn
            /\ UNCHANGED <<circuitBreaker, failureRun, halfOpenRun, lastFailureAt>>

\* The backoff sleep of a call ends: the loop's next attempt issues fetch().
Wake(call) ==
    /\ BagIn(call, active)
    /\ call.pc = "sleeping"
    /\ active' = (active (-) One(call)) (+)
                     One([call EXCEPT !.pc = "running", !.attempt = @ + 1,
                                      !.networkAttempts = @ + 1])
    /\ lastReturn' = NoReturn
    /\ lastStarted' = <<>>
    /\ UNCHANGED <<env, circuitBreaker, requestQueue, now, halfOpenRun, failureRun,
                   lastFailureAt, scanVars, filterVars, securityVars,
                   strategyVars, telegramVars, trendVars>>

\* Variant: the finally callback calls process() without releasing the slot.
FinallyKeepsSlot(call) ==
    /\ BagIn(call, active)
    /\ call.pc = "settled"
    /\ LET p == process(requestQueue) IN
       /\ requestQueue' = [p.rq EXCEPT !.queue = Renumber(p.rq.queue)]
       /\ active' = (active (-) One(call)) (+) p.started
       /\ lastStarted' = p.ranks
    /\ lastReturn' = NoReturn
    /\ UNCHANGED <<env, circuitBreaker, now, halfOpenRun, failureRun, lastFailureAt,
                   scanVars, filterVars, securityVars,
                   strategyVars, telegramVars, trendVars>>

\* The finally callback of a call whose function has returned:
\* activeRequests--, then process().
Finally(call) ==
    /\ BagIn(call, active)
    /\ call.pc = "settled"
    /\ LET p == process([requestQueue EXCEPT
                            !.activeRequests = requestQueue.activeRequests - 1]) IN
       /\ requestQueue' = [p.rq EXCEPT !.queue = Renumber(p.rq.queue)]
       /\ active' = (active (-) One(call)) (+) p.started
       /\ lastStarted' = p.ranks
    /\ lastReturn' = NoReturn
    /\ UNCHANGED <<env, circuitBreaker, now, halfOpenRun, failureRun, lastFailureAt,
                   scanVars, filterVars, securityVars,
                   strategyVars, telegramVars, trendVars>>

\* Everything but the clock.
Calling ==
    \/ \E url \in Urls, r \in 1..MaxRetries : FetchWithRetry(url, r)
    \/ \E call \in BagToSet(active), o \in Outcomes : AttemptEnds(call, o)
    \/ \E call \in BagToSet(active) : Wake(call)
    \/ \E call \in BagToSet(active) : Finally(call)

Next == Tick \/ Calling

\* The breaker scenario: few calls, the clock runs past the cooldown, the
\* upstream can fail past failureThreshold.
Init == InitWith([calls |-> BreakerCalls, ticks |-> BreakerTicks,
                  failures |-> BreakerFailures])
Spec == Init /\ [][Next]_vars

\* The queue scenario: more callers than slots, within one clock reading.
InitQueue == InitWith([calls |-> maxConcurrent + ExtraCalls, ticks |-> 0,
                       failures |-> QueueFailures])
SpecQueue == InitQueue /\ [][Calling]_vars

\* A started call takes its next step: its attempt ends, its backoff sleep
\* ends, or its finally callback runs.
Progress ==
    \E call \in BagToSet(active) :
        \/ \E o \in Outcomes : AttemptEnds(call, o)
        \/ Wake(call)
        \/ Finally(call)

\* The queue scenario in which no started call hangs for ever: every fetch is
\* bounded by its abort timer, every sleep by its setTimeout, and a settled
\* promise's finally callback is a microtask the event loop runs.
SpecQueueFair == SpecQueue /\ WF_vars(Progress)

\* The upstream recovers: from now on every fetch() gets a 2xx response with
\* a JSON body.
UpstreamRecovers ==
    /\ env.failures > 0
    /\ env' = [env EXCEPT !.failures = 0]
    /\ lastReturn' = NoReturn
    /\ lastStarted' = <<>>
    /\ UNCHANGED <<circuitBreaker, requestQueue, active, now, halfOpenRun, failureRun,
                   lastFailureAt, scanVars, filterVars, securityVars, strategyVars, telegramVars, trendVars>>

\* Date.now() moves on while a recovered upstream's breaker is still Open
\* within its cooldown, however far the clock has already run.
CooldownTick ==
    /\ env.failures = 0
    /\ circuitBreaker.state = OPEN
    /\ now - circuitBreaker.lastFailureTime < timeout
    /\ now' = now + TickMs
    /\ lastReturn' = NoReturn
    /\ lastStarted' = <<>>
    /\ UNCHANGED <<env, circuitBreaker, requestQueue, active, halfOpenRun,
                   failureRun, lastFailureAt, scanVars, filterVars, securityVars,
                   strategyVars, telegramVars, trendVars>>

\* A call is made with a well-formed URL.
Attempted == \E r \in 1..MaxRetries : FetchWithRetry("https:", r)

\* The breaker scenario until the upstream recovers, and after it the steps
\* in which every network attempt succeeds.
NextRecover ==
    \/ env.failures > 0 /\ Next
    \/ UpstreamRecovers
    \/ CooldownTick
    \/ /\ env.failures = 0
       /\ \/ Tick
          \/ \E url \in Urls, r \in 1..MaxRetries : FetchWithRetry(url, r)
          \/ \E call \in BagToSet(active) : AttemptEnds(call, "ok")
          \/ \E call \in BagToSet(active) : Wake(call)
          \/ \E call \in BagToSet(active) : Finally(call)

\* The recovery scenario: the clock runs, started calls take their steps and
\* callers keep calling.
SpecRecover ==
    /\ Init
    /\ [][NextRecover]_vars
    /\ WF_vars(CooldownTick)
    /\ WF_vars(NextRecover /\ Progress)
    /\ WF_vars(NextRecover /\ Attempted)

(* ------------------------------------------------- scanner: the seen-cache *)
maxAge == maxAgeMinutes * 60 * 1000
maxCacheAge == 24 * 60 * 60 * 1000

\* The scanner scenario starts a day into the epoch, so that cache entries
\* saved by an earlier run have positive timestamps.
ScanStartTime == maxCacheAge

Addresses == {"A", "B"}
DexIds == {"pumpfun", "moonshot", "raydium"}

\* The solana pairs a search can report at time t.  Pair B is exactly maxAge
\* old on pump.fun; pair A is that, or the same on another dex, or one
\* millisecond older, or has pairCreatedAt missing (0).
PairRecords(t) ==
    [pairAddress : Addresses, pairCreatedAt : {t - maxAge}, dexId : {"pumpfun"}]
      \cup [pairAddress : {"A"}, pairCreatedAt : {t - maxAge}, dexId : DexIds]
      \cup {[pairAddress |-> "A", pairCreatedAt |-> t - maxAge - 1, dexId |-> "pumpfun"],
            [pairAddress |-> "A", pairCreatedAt |-> 0, dexId |-> "moonshot"]}

\* allPairs: the results of the ten searches, concatenated.
Responses(t) == UNION {[1..n -> PairRecords(t)] : n \in 0..MaxResponse}

\* What the RugCheck request of one pair comes to: it fails (fetch throws or
\* the response is not ok), or the report has a score and maybe a danger risk.
RugReports ==
    {[fetched |-> "failed", score |-> 0, danger |-> FALSE],
     [fetched |-> "ok", score |-> 1500, danger |-> FALSE],
     [fetched |-> "ok", score |-> 1501, danger |-> FALSE],
     [fetched |-> "ok", score |-> 0, danger |-> TRUE]}

\* A Map is the sequence of its entries in insertion order.
has(m, k) == \E i \in 1..Len(m) : m[i].key = k

set(m, k, v) ==
    IF has(m, k)
    THEN [i \in 1..Len(m) |-> IF m[i].key = k THEN [key |-> k, value |-> v] ELSE m[i]]
    ELSE Append(m, [key |-> k, value |-> v])

keys(m) == {m[i].key : i \in 1..Len(m)}

\* new Map(iterable): set() for each [key, value] in turn.
RECURSIVE NewMap(_)
NewMap(entries) ==
    IF entries = <<>>
    THEN <<>>
    ELSE LET last == entries[Len(entries)] IN
         set(NewMap(SubSeq(entries, 1, Len(entries) - 1)), last[1], last[2])

\* Array.from(new Map(allPairs.map(p => [p.pairAddress, p])).values())
uniquePairs(allPairs) ==
    LET m == NewMap([i \in 1..Len(allPairs) |-> <<allPairs[i].pairAddress, allPairs[i]>>])
    IN [i \in 1..Len(m) |-> m[i].value]

AddressesOf(ps) == {ps[i].pairAddress : i \in 1..Len(ps)}

\* Variant: the file is left as it was.
saveCacheSkipped(file, m) == file

\* saveCache: the entries as an array of [key, value], written to the file.
saveCache(file, m) ==
    [exists |-> TRUE, valid |-> TRUE,
     data |-> [i \in 1..Len(m) |-> <<m[i].key, m[i].value>>]]

\* loadCache: the file parsed into a Map; an empty Map when the file is
\* missing or does not parse.
loadCache(file) ==
    IF file.exists
    THEN IF file.valid THEN NewMap(file.data) ELSE <<>>
    ELSE <<>>

\* Variant: an entry exactly maxCacheAge old is evicted too.
cleanOldCacheInclusive(m, file, t) ==
    LET kept == SelectSeq(m, LAMBDA e : ~(t - e.value.timestamp >= maxCacheAge)) IN
    [seenPairs |-> kept,
     cacheFile |-> IF Len(kept) < Len(m) THEN saveCache(file, kept) ELSE file]

\* cleanOldCache: delete the entries older than maxCacheAge, save if any was.
cleanOldCache(m, file, t) ==
    LET kept == SelectSeq(m, LAMBDA e : ~(t - e.value.timestamp > maxCacheAge)) IN
    [seenPairs |-> kept,
     cacheFile |-> IF Len(kept) < Len(m) THEN saveCache(file, kept) ELSE file]

\* Variant: every dex counts as locked.
isLiquidityLockedAnyDex(p) == TRUE

isLiquidityLocked(p) == p.dexId = "pumpfun" \/ p.dexId = "moonshot"

checkRugStatus(report) ==
    IF report.fetched # "ok"
    THEN TRUE
    ELSE IF report.score > 1500
         THEN FALSE
         ELSE IF report.danger THEN FALSE ELSE TRUE

\* Variant: the age of the pair is not looked at.
gateBeforeRugCheckAnyAge(p, t) ==
    IF p.pairCreatedAt = 0 THEN FALSE ELSE isLiquidityLocked(p)

\* The predicate of asyncFilter up to its await of checkRugStatus: FALSE when
\* it has returned false, TRUE when it goes on to the rug check.
gateBeforeRugCheck(p, t) ==
    IF p.pairCreatedAt = 0
    THEN FALSE
    ELSE IF t - p.pairCreatedAt > maxAge
         THEN FALSE
         ELSE isLiquidityLocked(p)

\* arr.filter((_v, index) => results[index])
RECURSIVE asyncFilter(_, _)
asyncFilter(arr, results) ==
    IF arr = <<>>
    THEN <<>>
    ELSE LET rest == asyncFilter(Tail(arr), Tail(results)) IN
         IF Head(results) THEN <<Head(arr)>> \o rest ELSE rest

\* newPairs.forEach(p => seenPairs.set(p.pairAddress, {...}))
RECURSIVE insertAll(_, _, _)
insertAll(m, ps, t) ==
    IF ps = <<>>
    THEN m
    ELSE insertAll(set(m, Head(ps).pairAddress,
                       [timestamp |-> t, pairCreatedAt |-> Head(ps).pairCreatedAt]),
                   Tail(ps), t)

\* A poll tick in progress: where it waits, and what fetchNewPairs holds
\* across its await of the rug checks.
NewScan(pc) == [pc |-> pc, now |-> 0, candidates |-> <<>>, left |-> 0]

\* Cache files left by an earlier run: A first seen 23h before the start, B
\* 21h or 22h before it.
SavedFiles ==
    {saveCache(NoFile,
               <<[key |-> "A", value |-> [timestamp |-> ScanStartTime - 23 * CACHE_CLEANUP_INTERVAL,
                                          pairCreatedAt |-> 1]],
                 [key |-> "B", value |-> [timestamp |-> ScanStartTime - h * CACHE_CLEANUP_INTERVAL,
                                          pairCreatedAt |-> 1]]>>) : h \in {21, 22}}

\* The module has been loaded: seenPairs = loadCache(), lastCleanup = Date.now().
InitScan ==
    /\ env = [calls |-> 0, ticks |-> 0, failures |-> 0]
    /\ circuitBreaker = [state |-> CLOSED, failureCount |-> 0, successCount |-> 0,
                         lastFailureTime |-> 0]
    /\ requestQueue = [queue |-> <<>>, processing |-> FALSE, activeRequests |-> 0]
    /\ active = EmptyBag
    /\ lastReturn = NoReturn
    /\ lastStarted = <<>>
    /\ halfOpenRun = 0
    /\ failureRun = 0
    /\ lastFailureAt = 0
    /\ pair = NoPair
    /\ verdicts = <<>>
    /\ SecurityIdle
    /\ StrategyIdle
    /\ TelegramIdle
    /\ TrendIdle
    /\ now = ScanStartTime
    /\ poll \in [mode : {"search", "trending"}, started : {FALSE}, timer : {FALSE}]
    /\ scans = EmptyBag
    /\ cacheFile \in {NoFile, [exists |-> TRUE, valid |-> FALSE, data |-> <<>>]}
                       \cup SavedFiles
    /\ seenPairs = loadCache(cacheFile)
    /\ lastCleanup = now
    /\ announced = keys(seenPairs)
    /\ scanEvent = NoScanEvent

\* A poll tick up to its first await.  In search mode that is scanLoop into
\* fetchNewPairs: the eviction sweep when one is due, then the searches are
\* issued.  In trending mode it is scanTrendingTokens issuing its requests.
TickBegins ==
    IF poll.mode = "search"
    THEN LET due == now - lastCleanup > CACHE_CLEANUP_INTERVAL
             c == cleanOldCache(seenPairs, cacheFile, now)
         IN
         /\ scans' = scans (+) One(NewScan("searching"))
         /\ seenPairs' = IF due THEN c.seenPairs ELSE seenPairs
         /\ cacheFile' = IF due THEN c.cacheFile ELSE cacheFile
         /\ lastCleanup' = IF due THEN now ELSE lastCleanup
         /\ announced' = IF due THEN announced \cap keys(c.seenPairs) ELSE announced
         /\ scanEvent' = [NoScanEvent EXCEPT !.op = "begun", !.before = seenPairs,
                                             !.swept = due]
    ELSE /\ scans' = scans (+) One(NewScan("trending"))
         /\ scanEvent' = NoScanEvent
         /\ UNCHANGED <<seenPairs, cacheFile, lastCleanup, announced>>

\* startScanner / startTrendingScanner: the first tick; search mode sets the
\* interval timer at once, trending mode after the first tick has ended.
StartScanner ==
    /\ ~poll.started
    /\ poll' = [poll EXCEPT !.started = TRUE, !.timer = (poll.mode = "search")]
    /\ TickBegins
    /\ UNCHANGED <<now, fetchVars, filterVars, securityVars,
                   strategyVars, telegramVars, trendVars>>

\* The setInterval callback: the next tick begins, whatever the earlier ticks
\* are doing.
Interval ==
    /\ poll.timer
    /\ BagCardinality(scans) < MaxScans
    /\ TickBegins
    /\ UNCHANGED <<poll, now, fetchVars, filterVars, securityVars,
                   strategyVars, telegramVars, trendVars>>

\* The ten searches of a tick have all resolved with allPairs: dedupe, drop
\* the seen pairs, run every predicate up to its rug check.  With no pair
\* left fetchNewPairs returns [] and scanLoop returns.
SearchesResolve(scan, allPairs) ==
    /\ BagIn(scan, scans)
    /\ scan.pc = "searching"
    /\ LET unseenPairs == SelectSeq(uniquePairs(allPairs),
                                    LAMBDA p : ~has(seenPairs, p.pairAddress))
           candidates == SelectSeq(unseenPairs, LAMBDA p : gateBeforeRugCheck(p, now))
       IN
       /\ scans' = IF candidates = <<>>
                   THEN scans (-) One(scan)
                   ELSE (scans (-) One(scan)) (+)
                            One([scan EXCEPT !.pc = "gating", !.now = now,
                                             !.candidates = candidates])
       /\ scanEvent' = [NoScanEvent EXCEPT
                           !.op = IF candidates = <<>> THEN "returned" ELSE "searched",
                           !.before = seenPairs,
                           !.observed = AddressesOf(allPairs),
                           !.evaluated = AddressesOf(unseenPairs)]
    /\ UNCHANGED <<poll, seenPairs, cacheFile, lastCleanup, announced, now,
                   fetchVars, filterVars, securityVars,
                   strategyVars, telegramVars, trendVars>>

\* The rug checks of a tick have all resolved: the pairs that passed are
\* inserted into the seen-cache, the cache is saved and the pairs are
\* returned to scanLoop, which goes on with the `alerts` of them that pass
\* the filter.
RugChecksResolve(scan, reports, alerts) ==
    /\ BagIn(scan, scans)
    /\ scan.pc = "gating"
    /\ LET results == [i \in 1..Len(scan.candidates) |-> checkRugStatus(reports[i])]
           newPairs == asyncFilter(scan.candidates, results)
           gated == [i \in 1..Len(scan.candidates) |->
                        [pair |-> scan.candidates[i], now |-> scan.now,
                         isSafe |-> results[i]]]
           inserted == insertAll(seenPairs, newPairs, now)
       IN
       /\ alerts <= Len(newPairs)
       /\ seenPairs' = inserted
       /\ cacheFile' = IF Len(newPairs) > 0 THEN saveCache(cacheFile, inserted)
                       ELSE cacheFile
       /\ announced' = announced \cup AddressesOf(newPairs)
       /\ scanEvent' = [NoScanEvent EXCEPT !.op = "returned",
                                           !.before = seenPairs,
                                           !.gated = AddressesOf(scan.candidates),
                                           !.returned = asyncFilter(gated, results)]
       /\ scans' = IF alerts = 0
                   THEN scans (-) One(scan)
                   ELSE (scans (-) One(scan)) (+)
                            One([NewScan("alerting") EXCEPT !.left = alerts])
    /\ UNCHANGED <<poll, lastCleanup, now, fetchVars, filterVars, securityVars,
                   strategyVars, telegramVars, trendVars>>

\* scanLoop has sent the alert of one pair and slept.
AlertSent(scan) ==
    /\ BagIn(scan, scans)
    /\ scan.pc = "alerting"
    /\ scans' = IF scan.left = 1
                THEN scans (-) One(scan)
                ELSE (scans (-) One(scan)) (+) One([scan EXCEPT !.left = @ - 1])
    /\ scanEvent' = NoScanEvent
    /\ UNCHANGED <<poll, seenPairs, cacheFile, lastCleanup, announced, now,
                   fetchVars, filterVars, securityVars,
                   strategyVars, telegramVars, trendVars>>

\* scanTrendingTokens has ended; after the first one startTrendingScanner
\* sets the interval timer.
TrendingScanEnds(scan) ==
    /\ BagIn(scan, scans)
    /\ scan.pc = "trending"
    /\ scans' = scans (-) One(scan)
    /\ poll' = [poll EXCEPT !.timer = TRUE]
    /\ scanEvent' = NoScanEvent
    /\ UNCHANGED <<seenPairs, cacheFile, lastCleanup, announced, now,
                   fetchVars, filterVars, securityVars,
                   strategyVars, telegramVars, trendVars>>

\* An hour passes.
HourPasses ==
    /\ now + CACHE_CLEANUP_INTERVAL <= ScanStartTime + MaxHours * CACHE_CLEANUP_INTERVAL
    /\ now' = now + CACHE_CLEANUP_INTERVAL
    /\ scanEvent' = NoScanEvent
    /\ UNCHANGED <<poll, scans, seenPairs, cacheFile, lastCleanup, announced,
                   fetchVars, filterVars, securityVars,
                   strategyVars, telegramVars, trendVars>>

\* clearCache(): the Map is emptied and the file removed.
ClearCache ==
    /\ seenPairs' = <<>>
    /\ cacheFile' = NoFile
    /\ announced' = {}
    /\ scanEvent' = [NoScanEvent EXCEPT !.op = "cleared"]
    /\ UNCHANGED <<poll, scans, lastCleanup, now, fetchVars, filterVars, securityVars,
                   strategyVars, telegramVars, trendVars>>

\* The process is restarted: the ticks in progress are gone and the module
\* is loaded again.
Restart ==
    /\ poll' = [poll EXCEPT !.started = FALSE, !.timer = FALSE]
    /\ scans' = EmptyBag
    /\ seenPairs' = loadCache(cacheFile)
    /\ lastCleanup' = now
    /\ scanEvent' = [NoScanEvent EXCEPT !.op = "restarted"]
    /\ UNCHANGED <<cacheFile, announced, now, fetchVars, filterVars, securityVars,
                   strategyVars, telegramVars, trendVars>>

NextScan ==
    \/ StartScanner
    \/ Interval
    \/ \E scan \in BagToSet(scans), allPairs \in Responses(now) :
           SearchesResolve(scan, allPairs)
    \/ \E scan \in BagToSet(scans) :
           \E reports \in [1..Len(scan.candidates) -> RugReports],
              alerts \in 0..MaxResponse :
               RugChecksResolve(scan, reports, alerts)
    \/ \E scan \in BagToSet(scans) : AlertSent(scan)
    \/ \E scan \in BagToSet(scans) : TrendingScanEnds(scan)
    \/ HourPasses
    \/ ClearCache
    \/ Restart

SpecScan == InitScan /\ [][NextScan]_vars

(* ------------------------------------------------------ filter: filterToken *)
\* Strings are sequences of characters.  The configured banned words: two of
\* the default list.
bannedWords == << <<"r", "u", "g">>, <<"a", "s", "s">> >>

\* String.prototype.toLowerCase over the letters the tokens use.
toLowerCase(str) ==
    LET lower == "A" :> "a" @@ "C" :> "c" @@ "G" :> "g" @@ "R" :> "r" @@ "T" :> "t"
                     @@ "U" :> "u"
    IN [i \in 1..Len(str) |-> IF str[i] \in DOMAIN lower THEN lower[str[i]] ELSE str[i]]

\* String.prototype.includes
includes(str, word) ==
    \E i \in 1..Len(str) :
        /\ i + Len(word) - 1 <= Len(str)
        /\ SubSeq(str, i, i + Len(word) - 1) = word

\* Variant: symbol and name are compared as they are written.
checkBannedWordsCaseSensitive(symbol, name) ==
    LET matches == SelectSeq(bannedWords,
                             LAMBDA word : includes(symbol, word) \/ includes(name, word))
    IN [banned |-> Len(matches) > 0, matches |-> matches]

checkBannedWords(symbol, name) ==
    LET symbolLower == toLowerCase(symbol)
        nameLower == toLowerCase(name)
        matches == SelectSeq(bannedWords,
                             LAMBDA word : includes(symbolLower, word)
                                             \/ includes(nameLower, word))
    IN [banned |-> Len(matches) > 0, matches |-> matches]

\* formatCurrency of a whole number of dollars: the digits shown (hundredths
\* of a million, tenths of a thousand, or units, rounded) and the suffix.
formatCurrency(value) ==
    IF value >= 1000000
    THEN [shown |-> (value + 5000) \div 10000, suffix |-> "M"]
    ELSE IF value >= 1000
         THEN [shown |-> (value + 50) \div 100, suffix |-> "k"]
         ELSE [shown |-> value, suffix |-> ""]

NoReason == [text |-> "none", detail |-> <<>>]

\* The FilterResult of a rejection (security is null in every result).
Rejected(p, text, detail, warnings) ==
    [passed |-> FALSE, reason |-> [text |-> text, detail |-> detail],
     warnings |-> warnings,
     stats |-> [liquidity |-> p.liquidity, volume5m |-> p.volume5m,
                volume24h |-> p.volume24h, priceChange |-> p.priceChange]]

\* Variant: the 24h warning includes a volume of exactly 5000.
lowVolumeWarningsInclusive(volume5m, volume24h) ==
    (IF volume5m < 200 THEN <<"Low volume 5m">> ELSE <<>>)
      \o (IF volume24h <= 5000 THEN <<"Low volume 24h">> ELSE <<>>)

\* Stage 10: the low volume warnings.
lowVolumeWarnings(volume5m, volume24h) ==
    (IF volume5m < 200 THEN <<"Low volume 5m">> ELSE <<>>)
      \o (IF volume24h < 5000 THEN <<"Low volume 24h">> ELSE <<>>)

\* filterToken from its stage 2 on, evaluated at time t.  A missing number
\* is 0 (`|| 0`); ageMinutes > 60 and ageMinutes < 2 are compared in
\* milliseconds, fdv / liquidity > n as fdv > n * liquidity.
filterFromLiquidity(p, t) ==
    LET ratioWarning == IF p.fdv > 0 /\ p.liquidity > 0 /\ p.fdv > 100 * p.liquidity
                        THEN <<"High FDV/Liquidity ratio">> ELSE <<>>
        pumpWarning == IF p.priceChange > 300 THEN <<"Extreme pump">>
                       ELSE IF p.priceChange > 100 THEN <<"High pump">> ELSE <<>>
        ageWarning == IF p.pairCreatedAt # 0 /\ t - p.pairCreatedAt < 2 * 60000
                      THEN <<"Very new (<2m)">> ELSE <<>>
        liquidityWarning == IF p.liquidity < 1000 THEN <<"Low liquidity">> ELSE <<>>
    IN
    IF p.liquidity < minLiquidity
    THEN Rejected(p, "Low liquidity", formatCurrency(p.liquidity), <<>>)
    ELSE IF p.volume5m < minVolume5m
    THEN Rejected(p, "Low volume 5m", formatCurrency(p.volume5m), <<>>)
    ELSE IF /\ p.volume24h < minVolume24h
            /\ p.pairCreatedAt # 0
            /\ t - p.pairCreatedAt > 60 * 60000
    THEN Rejected(p, "Low volume 24h", formatCurrency(p.volume24h), <<>>)
    ELSE IF p.fdv > 0 /\ p.liquidity > 0 /\ p.fdv > 1000 * p.liquidity
    THEN Rejected(p, "Suspicious FDV/Liquidity ratio (Potential Scam)", <<>>, <<>>)
    ELSE IF p.priceChange > 300 /\ p.volume5m < 1000
    THEN Rejected(p, "Honeypot pattern detected", <<>>, ratioWarning)
    ELSE [Rejected(p, "none", <<>>,
                   ratioWarning \o pumpWarning \o ageWarning \o liquidityWarning
                     \o lowVolumeWarnings(p.volume5m, p.volume24h))
            EXCEPT !.passed = TRUE]

\* Variant: the liquidity floor is tested before the banned words.
filterTokenLiquidityFirst(p, t) ==
    LET bannedCheck == checkBannedWords(p.symbol, p.name)
        rest == filterFromLiquidity(p, t)
    IN IF rest.reason.text = "Low liquidity"
       THEN rest
       ELSE IF bannedCheck.banned
            THEN Rejected(p, "Banned word detected", bannedCheck.matches, <<>>)
            ELSE rest

\* filterToken(pair), evaluated at time t.
filterToken(p, t) ==
    LET bannedCheck == checkBannedWords(p.symbol, p.name) IN
    IF bannedCheck.banned
    THEN Rejected(p, "Banned word detected", bannedCheck.matches, <<>>)
    ELSE filterFromLiquidity(p, t)

\* The snapshots evaluated: a token with a clean symbol and name, one with a
\* banned word in its symbol and one with a banned word inside its name;
\* numbers on both sides of each threshold; pairCreatedAt missing (0) or
\* 1, 5 or 60 minutes before t.
Tokens ==
    {[symbol |-> <<"C", "A", "T">>, name |-> <<"c", "a", "t">>],
     [symbol |-> <<"R", "U", "G">>, name |-> <<"c", "a", "t">>],
     [symbol |-> <<"C", "A", "T">>, name |-> <<"G", "r", "a", "s", "s">>]}

Snapshots(t) ==
    {[symbol |-> tok.symbol, name |-> tok.name, liquidity |-> l, volume5m |-> v5,
      volume24h |-> v24, priceChange |-> pc, fdv |-> f, pairCreatedAt |-> c] :
        tok \in Tokens, l \in {299, 300, 5000}, v5 \in {99, 100, 500, 1000},
        v24 \in {999, 1000, 5000}, pc \in {20, 101, 301},
        f \in {0, 50000, 505000, 5005000},
        c \in {0, t - 60000, t - 5 * 60000, t - 60 * 60000}}

InitFilter ==
    /\ env = [calls |-> 0, ticks |-> 0, failures |-> 0]
    /\ circuitBreaker = [state |-> CLOSED, failureCount |-> 0, successCount |-> 0,
                         lastFailureTime |-> 0]
    /\ requestQueue = [queue |-> <<>>, processing |-> FALSE, activeRequests |-> 0]
    /\ active = EmptyBag
    /\ lastReturn = NoReturn
    /\ lastStarted = <<>>
    /\ halfOpenRun = 0
    /\ failureRun = 0
    /\ lastFailureAt = 0
    /\ poll = [mode |-> "search", started |-> FALSE, timer |-> FALSE]
    /\ scans = EmptyBag
    /\ seenPairs = <<>>
    /\ cacheFile = NoFile
    /\ lastCleanup = ScanStartTime
    /\ announced = {}
    /\ scanEvent = NoScanEvent
    /\ now = ScanStartTime
    /\ pair \in Snapshots(now)
    /\ verdicts = <<>>
    /\ SecurityIdle
    /\ StrategyIdle
    /\ TelegramIdle
    /\ TrendIdle

\* filterToken(pair) is called once more.
FilterToken ==
    /\ Len(verdicts) < MaxEvaluations
    /\ verdicts' = Append(verdicts, [at |-> now, result |-> filterToken(pair, now)])
    /\ UNCHANGED <<pair, now, fetchVars, scanVars, securityVars,
                   strategyVars, telegramVars, trendVars>>

\* A minute passes.
MinutePasses ==
    /\ now + 60000 <= ScanStartTime + MaxMinutes * 60000
    /\ now' = now + 60000
    /\ UNCHANGED <<pair, verdicts, fetchVars, scanVars, securityVars,
                   strategyVars, telegramVars, trendVars>>

NextFilter == FilterToken \/ MinutePasses

SpecFilter == InitFilter /\ [][NextFilter]_vars

(* ------------------------------------------- filter: filterTokenWithSecurity *)
\* config.scanner's security settings: each check off by default and turned
\* on by its environment variable; the concentration limit is 20 by default.
Configs ==
    [enableMintAuthorityCheck : BOOLEAN, enableLiquidityLockCheck : BOOLEAN,
     enableHolderDistributionCheck : BOOLEAN, maxHolderConcentration : {20, 50}]

\* What getTokenMetadata resolves to: null when the response is not ok or the
\* request throws, and the token's metadata otherwise.  An authority is null,
\* the empty string or an address.
NoMetadata == [found |-> FALSE]
Metadata ==
    {NoMetadata}
      \cup {[found |-> TRUE, mintAuthority |-> a[1], freezeAuthority |-> a[2],
             supply |-> s] :
               a \in {<<"null", "authority">>, <<"", "null">>, <<"authority", "null">>},
               s \in {0, 100}}

\* What getTokenHolders resolves to: the holders' amounts, largest first; the
\* empty list when the response is not ok or the request throws.
HolderLists ==
    {<<>>, <<15>>, <<20>>, <<21>>, <<50>>, <<51>>,
     <<2, 2, 2, 2, 2, 2, 2, 2, 2, 2, 40>>}

\* What the two lookups of one checkTokenSecurity call resolve to; the holders
\* are asked for only when the metadata gave a positive supply.
NotAsked == [asked |-> FALSE]
Asked(metadata) == metadata.found /\ metadata.supply > 0
Lookups ==
    {[metadata |-> m, holders |-> NotAsked] : m \in {x \in Metadata : ~Asked(x)}}
      \cup {[metadata |-> m, holders |-> [asked |-> TRUE, list |-> h]] :
               m \in {x \in Metadata : Asked(x)}, h \in HolderLists}

RECURSIVE SumFirst(_, _)
SumFirst(amounts, n) ==
    IF n = 0 THEN 0 ELSE SumFirst(amounts, n - 1) + amounts[n]

Min(a, b) == IF a <= b THEN a ELSE b

checkLiquidityLock(p) ==
    IF p.fdv > 0 /\ p.liquidity > 0 /\ p.fdv > 500 * p.liquidity
    THEN [locked |-> FALSE, percent |-> 0]
    ELSE [locked |-> TRUE, percent |-> 95]

\* The share of the supply the first ten holders own, in percent (the
\* supplies used make it a whole number).
checkHolderDistribution(holders, totalSupply) ==
    IF Len(holders) = 0
    THEN 0
    ELSE IF totalSupply > 0
         THEN (SumFirst(holders, Min(Len(holders), 10)) * 100) \div totalSupply
         ELSE 0

\* checkTokenSecurity(pair), given what its two lookups resolve to.
checkTokenSecurity(p, lookup) ==
    LET metadata == lookup.metadata
        totalSupply == IF metadata.found THEN metadata.supply ELSE 0
        liquidityCheck == checkLiquidityLock(p)
    IN [mintAuthorityEnabled |->
            metadata.found /\ metadata.mintAuthority \notin {"null", ""},
        freezeAuthorityEnabled |->
            metadata.found /\ metadata.freezeAuthority \notin {"null", ""},
        liquidityLocked |-> liquidityCheck.locked,
        liquidityLockedPercent |-> liquidityCheck.percent,
        top10HolderPercent |->
            IF totalSupply > 0
            THEN checkHolderDistribution(lookup.holders.list, totalSupply)
            ELSE 0,
        totalSupply |-> totalSupply,
        checked |-> TRUE]

\* A FilterResult with its security field; null is the empty tuple.
NoSecurity == <<>>
WithSecurity(result, security) ==
    [passed |-> result.passed, reason |-> result.reason,
     warnings |-> result.warnings, stats |-> result.stats, security |-> security]

\* Number.prototype.toFixed(1) of a whole number: its tenths.
toFixed1(x) == [tenths |-> x * 10]

\* The security stages of filterTokenWithSecurity, applied to the passing
\* result of filterToken.
securityStages(result, security, cfg) ==
    LET lockWarning ==
            IF cfg.enableLiquidityLockCheck /\ ~security.liquidityLocked
            THEN <<"Liquidity NOT locked">> ELSE <<>>
        holderWarning ==
            IF security.top10HolderPercent > 20
            THEN <<"High holder concentration">> ELSE <<>>
    IN
    IF cfg.enableMintAuthorityCheck /\ security.mintAuthorityEnabled
    THEN [passed |-> FALSE,
          reason |-> [text |-> "Mint authority is enabled (can mint more tokens)",
                      detail |-> <<>>],
          warnings |-> result.warnings, stats |-> result.stats, security |-> security]
    ELSE IF /\ cfg.enableHolderDistributionCheck
            /\ security.top10HolderPercent > cfg.maxHolderConcentration
    THEN [passed |-> FALSE,
          reason |-> [text |-> "High holder concentration",
                      detail |-> toFixed1(security.top10HolderPercent)],
          warnings |-> result.warnings \o lockWarning, stats |-> result.stats,
          security |-> security]
    ELSE WithSecurity([result EXCEPT !.warnings = @ \o lockWarning \o holderWarning],
                      security)

\* Variant: liquidity that is not locked rejects the token.
filterTokenWithSecurityLockRejects(p, t, cfg, lookup) ==
    LET result == filterToken(p, t)
        security == checkTokenSecurity(p, lookup)
    IN IF result.passed /\ cfg.enableLiquidityLockCheck /\ ~security.liquidityLocked
       THEN WithSecurity([result EXCEPT !.passed = FALSE], security)
       ELSE IF ~result.passed
            THEN WithSecurity(result, NoSecurity)
            ELSE securityStages(result, security, cfg)

\* filterTokenWithSecurity(pair), called at time t under the settings cfg.
\* Nothing inside its try block throws, so its catch is never entered.
filterTokenWithSecurity(p, t, cfg, lookup) ==
    LET result == filterToken(p, t) IN
    IF ~result.passed
    THEN WithSecurity(result, NoSecurity)
    ELSE IF \/ cfg.enableMintAuthorityCheck
            \/ cfg.enableLiquidityLockCheck
            \/ cfg.enableHolderDistributionCheck
    THEN securityStages(result, checkTokenSecurity(p, lookup), cfg)
    ELSE WithSecurity(result, NoSecurity)

\* The snapshots given to the security-augmented filter: one rejected for a
\* banned word, one for its liquidity, and passing ones with and without
\* warnings whose FDV is 10, 101 or 501 times the liquidity; the last one
\* meets every warning condition of filterToken at once.
SecuritySnapshots(t) ==
    {[symbol |-> tok.symbol, name |-> tok.name, liquidity |-> l, volume5m |-> 500,
      volume24h |-> 5000, priceChange |-> pc, fdv |-> f * 5000, pairCreatedAt |-> c] :
        tok \in {[symbol |-> <<"C", "A", "T">>, name |-> <<"c", "a", "t">>],
                 [symbol |-> <<"R", "U", "G">>, name |-> <<"c", "a", "t">>]},
        l \in {299, 5000}, pc \in {20, 101}, f \in {10, 101, 501},
        c \in {t - 60000, t - 5 * 60000}}
      \cup {[symbol |-> <<"C", "A", "T">>, name |-> <<"c", "a", "t">>,
              liquidity |-> 999, volume5m |-> 150, volume24h |-> 999,
              priceChange |-> 101, fdv |-> 501 * 999, pairCreatedAt |-> t - 60000]}

InitSecurity ==
    /\ env = [calls |-> 0, ticks |-> 0, failures |-> 0]
    /\ circuitBreaker = [state |-> CLOSED, failureCount |-> 0, successCount |-> 0,
                         lastFailureTime |-> 0]
    /\ requestQueue = [queue |-> <<>>, processing |-> FALSE, activeRequests |-> 0]
    /\ active = EmptyBag
    /\ lastReturn = NoReturn
    /\ lastStarted = <<>>
    /\ halfOpenRun = 0
    /\ failureRun = 0
    /\ lastFailureAt = 0
    /\ poll = [mode |-> "search", started |-> FALSE, timer |-> FALSE]
    /\ scans = EmptyBag
    /\ seenPairs = <<>>
    /\ cacheFile = NoFile
    /\ lastCleanup = ScanStartTime
    /\ announced = {}
    /\ scanEvent = NoScanEvent
    /\ now = ScanStartTime
    /\ pair \in SecuritySnapshots(now)
    /\ verdicts = <<>>
    /\ scannerConfig \in Configs
    /\ securityVerdict = <<>>
    /\ StrategyIdle
    /\ TelegramIdle
    /\ TrendIdle

\* filterTokenWithSecurity(pair) is called and its promise resolves; the
\* lookups it awaits resolve to `lookup`.
FilterTokenWithSecurity(lookup) ==
    /\ securityVerdict' =
         <<[at |-> now, lookup |-> lookup, basic |-> filterToken(pair, now),
            result |-> filterTokenWithSecurity(pair, now, scannerConfig, lookup)]>>
    /\ UNCHANGED <<pair, verdicts, scannerConfig, now, fetchVars, scanVars,
                   strategyVars, telegramVars, trendVars>>

NextSecurity ==
    \/ FilterToken
    \/ \E lookup \in Lookups : FilterTokenWithSecurity(lookup)

SpecSecurity == InitSecurity /\ [][NextSecurity]_vars

(* ------------------------------------------------ strategies: token history *)
\* A number the code computes by a division is kept as the fraction num/den
\* and compared by cross-multiplication.  The prices used are positive, so a
\* compared fraction has a positive denominator.
Fraction(num, den) == [num |-> num, den |-> den]

\* Array.prototype.slice(-n), n > 0
lastN(arr, n) ==
    IF Len(arr) <= n THEN arr ELSE SubSeq(arr, Len(arr) - n + 1, Len(arr))

\* Map.prototype.get of a key the Map has
get(m, k) == m[CHOOSE i \in 1..Len(m) : m[i].key = k].value

Sum(arr) == SumFirst(arr, Len(arr))

\* Math.max(...arr) and Math.min(...arr) of a non-empty array
MaxOf(arr) == CHOOSE x \in {arr[i] : i \in 1..Len(arr)} : \A i \in 1..Len(arr) : arr[i] <= x
MinOf(arr) == CHOOSE x \in {arr[i] : i \in 1..Len(arr)} : \A i \in 1..Len(arr) : x <= arr[i]

\* The market numbers analyzeTokenStrategies is given besides the price.  In
\* the first family the volume and the 1h change vary, in the second the two
\* price changes, in the third the inputs of the Fresh Token detector.
Markets ==
    [volume : {0, 299, 300, 301, 1999, 2000}, liquidity : {1000},
     marketCap : {30000}, priceChange1h : {1, 2, 4, 5, 6}, priceChange24h : {10}]
      \cup [volume : {2000}, liquidity : {1000}, marketCap : {30000},
            priceChange1h : {1, 2, 4, 5, 6}, priceChange24h : {4, 5, 9, 10}]
      \cup [volume : {1999, 2000}, liquidity : {999, 1000},
            marketCap : {29999, 30000}, priceChange1h : {6},
            priceChange24h : {9, 10}]

\* Prices, in tenths of a cent.
Prices == {59, 60, 70, 75, 77, 95, 96}

\* What fetchTokenHistory resolves to: n hourly candles ending an hour before
\* t.  The first candle closed at 200, the last at `low`, the others at 100;
\* the first has 21 times the volume `volume` of each of the others.
Candles(n, low, volume, t) ==
    [i \in 1..n |->
        [time |-> (t \div 1000) - 3600 * (n - i + 1),
         close |-> IF i = 1 THEN 200 ELSE IF i = n THEN low ELSE 100,
         volume |-> IF i = 1 THEN 21 * volume ELSE volume]]

\* No candles (the request failed or the pair has none), or enough candles to
\* bring the history just below, to and above each length the code tests:
\* 5 and 10 points, the 20-point volume window and the 200-point cap.
CandleCounts == {3, 4, 5, 8, 9, 10, 19, 20, 199, 200}
Backfills(t) ==
    {<<>>}
      \cup {Candles(n, 70, 100, t) : n \in CandleCounts}
      \cup {Candles(10, 50, 100, t), Candles(5, 70, 0, t)}

\* loadHistoricalData: the candles as price points.
loadHistoricalData(candles) ==
    [i \in 1..Len(candles) |->
        [price |-> candles[i].close, timestamp |-> candles[i].time * 1000,
         volume |-> candles[i].volume]]

NewHistory(address, t) ==
    [address |-> address, prices |-> <<>>, firstSeen |-> t, lastSeen |-> t,
     historicalLoaded |-> FALSE]

thirtyMinutes == 30 * 60 * 1000

\* Variant: an entry last seen exactly thirty minutes ago is deleted too.
cleanupInclusive(m, t) ==
    SelectSeq(m, LAMBDA e : ~(e.value.lastSeen <= t - thirtyMinutes))

\* The cleanup loop at the end of updateTokenHistory.
cleanup(m, t) ==
    SelectSeq(m, LAMBDA e : ~(e.value.lastSeen < t - thirtyMinutes))

\* Variant: the cap keeps the oldest points.
addPricePointKeepOldest(history, price, volume, t) ==
    LET lastPrice == IF history.prices = <<>> THEN <<>>
                     ELSE <<history.prices[Len(history.prices)]>>
        pushed == IF lastPrice = <<>> \/ lastPrice[1].price # price
                  THEN Append(history.prices,
                              [price |-> price, timestamp |-> t, volume |-> volume])
                  ELSE history.prices
    IN [history EXCEPT !.prices = IF Len(pushed) > maxPricePoints
                                  THEN SubSeq(pushed, 1, maxPricePoints)
                                  ELSE pushed,
                       !.lastSeen = t]

\* updateTokenHistory from "Add new price point if not duplicate" to the cap.
addPricePoint(history, price, volume, t) ==
    LET lastPrice == IF history.prices = <<>> THEN <<>>
                     ELSE <<history.prices[Len(history.prices)]>>
        pushed == IF lastPrice = <<>> \/ lastPrice[1].price # price
                  THEN Append(history.prices,
                              [price |-> price, timestamp |-> t, volume |-> volume])
                  ELSE history.prices
    IN [history EXCEPT !.prices = IF Len(pushed) > maxPricePoints
                                  THEN lastN(pushed, maxPricePoints)
                                  ELSE pushed,
                       !.lastSeen = t]

\* updateTokenHistory of a token whose entry `history` is in the Map, from
\* the price point on: the point, lastSeen, the cap and the cleanup.
updateTokenHistory(m, history, price, volume, t) ==
    cleanup(set(m, history.address, addPricePoint(history, price, volume, t)), t)

(* -------------------------------------------------- strategies: detectors *)
Null == [null |-> TRUE]

\* calculateMA: the mean of the last `period` numbers, or of all of them when
\* there are fewer (0 when there is none).
calculateMA(prices, period) ==
    IF Len(prices) < period
    THEN IF Len(prices) > 0 THEN Fraction(Sum(prices), Len(prices)) ELSE Fraction(0, 1)
    ELSE LET recentPrices == lastN(prices, period)
         IN Fraction(Sum(recentPrices), Len(recentPrices))

\* Variant: the volume must exceed minVolumeSpike times the average.
detectVolumeSpikeStrict(m, address, currentVolume, priceChange) ==
    IF ~has(m, address) \/ Len(get(m, address).prices) < 5
    THEN [triggered |-> FALSE, message |-> "Insufficient data", details |-> Null]
    ELSE
    LET prices == get(m, address).prices
        volumes == [i \in 1..Len(prices) |-> prices[i].volume]
        avgVolume == calculateMA(volumes, Min(20, Len(volumes)))
        ratio == Fraction(currentVolume * avgVolume.den, avgVolume.num)
    IN
    IF \/ avgVolume.num <= 0
       \/ currentVolume * avgVolume.den <= minVolumeSpike * avgVolume.num
    THEN [triggered |-> FALSE, message |-> "No volume spike",
          details |-> [currentVolume |-> currentVolume, avgVolume |-> avgVolume,
                       ratio |-> ratio]]
    ELSE IF priceChange < minPriceChangePercent
    THEN [triggered |-> FALSE, message |-> "Price not moving up enough",
          details |-> [priceChange |-> priceChange]]
    ELSE [triggered |-> TRUE, message |-> "VOLUME SPIKE",
          details |-> [currentVolume |-> currentVolume, avgVolume |-> avgVolume,
                       spikeRatio |-> ratio, priceChange |-> priceChange]]

\* Strategy 1.  A result's message is its first line for a trigger and the
\* whole text otherwise.
detectVolumeSpike(m, address, currentVolume, priceChange) ==
    IF ~has(m, address) \/ Len(get(m, address).prices) < 5
    THEN [triggered |-> FALSE, message |-> "Insufficient data", details |-> Null]
    ELSE
    LET prices == get(m, address).prices
        volumes == [i \in 1..Len(prices) |-> prices[i].volume]
        avgVolume == calculateMA(volumes, Min(20, Len(volumes)))
        ratio == Fraction(currentVolume * avgVolume.den, avgVolume.num)
    IN
    IF \/ avgVolume.num <= 0
       \/ currentVolume * avgVolume.den < minVolumeSpike * avgVolume.num
    THEN [triggered |-> FALSE, message |-> "No volume spike",
          details |-> [currentVolume |-> currentVolume, avgVolume |-> avgVolume,
                       ratio |-> ratio]]
    ELSE IF priceChange < minPriceChangePercent
    THEN [triggered |-> FALSE, message |-> "Price not moving up enough",
          details |-> [priceChange |-> priceChange]]
    ELSE [triggered |-> TRUE, message |-> "VOLUME SPIKE",
          details |-> [currentVolume |-> currentVolume, avgVolume |-> avgVolume,
                       spikeRatio |-> ratio, priceChange |-> priceChange]]

\* Variant: the recovery from the low is not tested.
detectMomentumBackAnyRecovery(m, address, currentPrice, priceChange1h, priceChange24h) ==
    IF ~has(m, address) \/ Len(get(m, address).prices) < 10
    THEN [triggered |-> FALSE, message |-> "Insufficient data", details |-> Null]
    ELSE
    LET recent == lastN(get(m, address).prices, 10)
        currentHigh == MaxOf([i \in 1..Len(recent) |-> recent[i].price])
        pullback == (currentHigh - currentPrice) * 100
    IN
    [triggered |-> /\ pullback >= 5 * currentHigh
                   /\ pullback <= maxPullbackPercent * currentHigh
                   /\ (priceChange1h >= 2 \/ priceChange24h >= 5),
     message |-> "MOMENTUM BACK", details |-> Null]

\* Strategy 2.
detectMomentumBack(m, address, currentPrice, priceChange1h, priceChange24h) ==
    IF ~has(m, address) \/ Len(get(m, address).prices) < 10
    THEN [triggered |-> FALSE, message |-> "Insufficient data", details |-> Null]
    ELSE
    LET recent == lastN(get(m, address).prices, 10)
        currentLow == MinOf([i \in 1..Len(recent) |-> recent[i].price])
        currentHigh == MaxOf([i \in 1..Len(recent) |-> recent[i].price])
        pullbackPercent == Fraction((currentHigh - currentPrice) * 100, currentHigh)
        recoveryPercent == Fraction((currentPrice - currentLow) * 100, currentLow)
    IN
    IF \/ pullbackPercent.num < 5 * pullbackPercent.den
       \/ pullbackPercent.num > maxPullbackPercent * pullbackPercent.den
    THEN [triggered |-> FALSE, message |-> "No valid pullback pattern",
          details |-> [pullbackPercent |-> pullbackPercent,
                       recoveryPercent |-> recoveryPercent]]
    ELSE IF recoveryPercent.num < minMomentumPercent * recoveryPercent.den
    THEN [triggered |-> FALSE, message |-> "Not enough recovery",
          details |-> [recoveryPercent |-> recoveryPercent]]
    ELSE IF priceChange1h < 2 /\ priceChange24h < 5
    THEN [triggered |-> FALSE, message |-> "Price not moving enough",
          details |-> [priceChange1h |-> priceChange1h,
                       priceChange24h |-> priceChange24h]]
    ELSE [triggered |-> TRUE, message |-> "MOMENTUM BACK",
          details |-> [pullbackPercent |-> pullbackPercent,
                       recoveryPercent |-> recoveryPercent,
                       priceChange1h |-> priceChange1h,
                       priceChange24h |-> priceChange24h]]

\* Variant: a history of six points still counts as fresh.
detectFreshTokenSixPoints(m, address, liquidity, volume24h, marketCap, priceChange24h) ==
    [triggered |-> /\ has(m, address)
                   /\ Len(get(m, address).prices) <= 6
                   /\ liquidity >= 1000
                   /\ volume24h >= 2000
                   /\ marketCap >= 30000
                   /\ priceChange24h >= 10,
     message |-> "FRESH TOKEN", details |-> Null]

\* Strategy 3.
detectFreshToken(m, address, liquidity, volume24h, marketCap, priceChange24h) ==
    LET minVolume == 2000
        minMarketCap == 30000
    IN
    IF ~has(m, address) \/ Len(get(m, address).prices) > 5
    THEN [triggered |-> FALSE, message |-> "Not a fresh token", details |-> Null]
    ELSE IF liquidity < 1000
    THEN [triggered |-> FALSE, message |-> "Low liquidity",
          details |-> [liquidity |-> liquidity]]
    ELSE IF volume24h < minVolume
    THEN [triggered |-> FALSE, message |-> "Low volume",
          details |-> [volume24h |-> volume24h]]
    ELSE IF marketCap < minMarketCap
    THEN [triggered |-> FALSE, message |-> "Low market cap",
          details |-> [marketCap |-> marketCap]]
    ELSE IF priceChange24h < 10
    THEN [triggered |-> FALSE, message |-> "Not enough price movement",
          details |-> [priceChange24h |-> priceChange24h]]
    ELSE [triggered |-> TRUE, message |-> "FRESH TOKEN",
          details |-> [liquidity |-> liquidity, volume24h |-> volume24h,
                       marketCap |-> marketCap, priceChange24h |-> priceChange24h]]

AlertTypes == <<"VOLUME_SPIKE", "MOMENTUM_BACK", "FRESH_TOKEN">>

\* The messages pushed and the addAlert calls made for the detectors that
\* triggered, in the order the detectors run.
Fired(address, results) ==
    LET fired == SelectSeq(<<1, 2, 3>>, LAMBDA i : results[i].triggered) IN
    [messages |-> [k \in 1..Len(fired) |-> results[fired[k]].message],
     alerts |-> [k \in 1..Len(fired) |->
                    [tokenAddress |-> address, type |-> AlertTypes[fired[k]],
                     details |-> results[fired[k]].details]]]

\* Variant: the call returns after the first detector that triggers.
analyzeTokenStrategiesFirstOnly(m, address, market, price) ==
    LET volumeResult == detectVolumeSpike(m, address, market.volume, market.priceChange1h)
        momentumResult == detectMomentumBack(m, address, price, market.priceChange1h,
                                             market.priceChange24h)
        freshResult == detectFreshToken(m, address, market.liquidity, market.volume,
                                        market.marketCap, market.priceChange24h)
        fired == Fired(address, <<volumeResult, momentumResult, freshResult>>)
    IN [volumeResult |-> volumeResult, momentumResult |-> momentumResult,
        freshResult |-> freshResult,
        result |-> [triggered |-> Len(fired.messages) > 0,
                    messages |-> SubSeq(fired.messages, 1, Min(1, Len(fired.messages)))],
        alerts |-> SubSeq(fired.alerts, 1, Min(1, Len(fired.alerts)))]

\* analyzeTokenStrategies after its updateTokenHistory: the three detectors
\* on the updated Map m, the messages it returns and the alerts it adds.
analyzeTokenStrategies(m, address, market, price) ==
    LET volumeResult == detectVolumeSpike(m, address, market.volume, market.priceChange1h)
        momentumResult == detectMomentumBack(m, address, price, market.priceChange1h,
                                             market.priceChange24h)
        freshResult == detectFreshToken(m, address, market.liquidity, market.volume,
                                        market.marketCap, market.priceChange24h)
        fired == Fired(address, <<volumeResult, momentumResult, freshResult>>)
    IN [volumeResult |-> volumeResult, momentumResult |-> momentumResult,
        freshResult |-> freshResult,
        result |-> [triggered |-> Len(fired.messages) > 0, messages |-> fired.messages],
        alerts |-> fired.alerts]

(* ---------------------------------------------------- strategies: actions *)
\* The clock of the strategy scenarios advances by a quarter of an hour.
QuarterMs == 15 * 60 * 1000

\* The trending scanner runs; the seen-cache is the one loaded at start.
InitStrategy(feeds, files) ==
    /\ env = [calls |-> 0, ticks |-> 0, failures |-> 0]
    /\ circuitBreaker = [state |-> CLOSED, failureCount |-> 0, successCount |-> 0,
                         lastFailureTime |-> 0]
    /\ requestQueue = [queue |-> <<>>, processing |-> FALSE, activeRequests |-> 0]
    /\ active = EmptyBag
    /\ lastReturn = NoReturn
    /\ lastStarted = <<>>
    /\ halfOpenRun = 0
    /\ failureRun = 0
    /\ lastFailureAt = 0
    /\ poll = [mode |-> "trending", started |-> TRUE, timer |-> TRUE]
    /\ scans = EmptyBag
    /\ cacheFile \in files
    /\ seenPairs = loadCache(cacheFile)
    /\ lastCleanup = ScanStartTime
    /\ announced = keys(seenPairs)
    /\ scanEvent = NoScanEvent
    /\ now = ScanStartTime
    /\ pair = NoPair
    /\ verdicts = <<>>
    /\ SecurityIdle
    /\ TelegramIdle
    /\ TrendIdle
    /\ feed \in feeds
    /\ tokenHistory = <<>>
    /\ analyses = {}
    /\ strategyEvent = <<>>

\* What a completed analyzeTokenStrategies call leaves for the observer.
Completed(call, before, candles, m) ==
    <<[address |-> call.address, price |-> call.price, at |-> now, before |-> before,
       candles |-> candles,
       analysis |-> analyzeTokenStrategies(m, call.address, feed.market, call.price)]>>

\* analyzeTokenStrategies(address, ...) for a token that has a history: the
\* whole call, which awaits nothing but resolved promises.  The caller marks
\* a token key as seen before its first await (processTrendingToken), so a
\* key is not analysed again while its first analysis awaits the backfill;
\* the same address coming in under another key is AnalyzeDuringBackfill.
AnalyzeTracked(address, price) ==
    /\ feed.calls > 0
    /\ has(tokenHistory, address)
    /\ \A c \in analyses : c.address # address
    /\ LET call == [address |-> address, price |-> price]
           m == updateTokenHistory(tokenHistory, get(tokenHistory, address), price,
                                   feed.market.volume, now)
       IN /\ tokenHistory' = m
          /\ strategyEvent' = Completed(call, tokenHistory, <<>>, m)
    /\ feed' = [feed EXCEPT !.calls = @ - 1]
    /\ UNCHANGED <<analyses, now, fetchVars, scanVars, filterVars, securityVars, telegramVars, trendVars>>

\* analyzeTokenStrategies(address, ...) for a token that has none, up to the
\* await of loadHistoricalData: the new entry is in the Map.
AnalyzeNew(address, price) ==
    /\ feed.calls > 0
    /\ ~has(tokenHistory, address)
    /\ \A c \in analyses : c.address # address
    /\ feed' = [feed EXCEPT !.calls = @ - 1]
    /\ tokenHistory' = set(tokenHistory, address, NewHistory(address, now))
    /\ analyses' = analyses \cup {[address |-> address, price |-> price]}
    /\ strategyEvent' = <<>>
    /\ UNCHANGED <<now, fetchVars, scanVars, filterVars, securityVars, telegramVars, trendVars>>

\* loadHistoricalData resolves for the call `call`, and the call runs to its
\* end: the backfill, the price point, the cleanup and the detectors.
BackfillResolves(call, candles) ==
    /\ call \in analyses
    /\ LET historicalPrices == loadHistoricalData(candles)
           created == get(tokenHistory, call.address)
           history == IF Len(historicalPrices) > 0
                      THEN [created EXCEPT !.prices = historicalPrices,
                                           !.historicalLoaded = TRUE]
                      ELSE created
           m == updateTokenHistory(tokenHistory, history, call.price,
                                   feed.market.volume, now)
       IN /\ tokenHistory' = m
          /\ strategyEvent' = Completed(call, tokenHistory, candles, m)
    /\ analyses' = analyses \ {call}
    /\ UNCHANGED <<feed, now, fetchVars, scanVars, filterVars, securityVars, telegramVars, trendVars>>

\* A quarter of an hour passes; a backfill request ends within seconds, so
\* none is pending across it.
QuarterPasses ==
    /\ feed.quarters > 0
    /\ analyses = {}
    /\ feed' = [feed EXCEPT !.quarters = @ - 1]
    /\ now' = now + QuarterMs
    /\ strategyEvent' = <<>>
    /\ UNCHANGED <<tokenHistory, analyses, fetchVars, scanVars, filterVars,
                   securityVars, telegramVars, trendVars>>

\* One token is analysed DetectCalls times on any market numbers, with no
\* time passing in between.
DetectFeeds ==
    [market : Markets, addresses : {{"A"}}, prices : {Prices}, calls : {DetectCalls},
     quarters : {0}]

NextDetect ==
    \/ \E address \in feed.addresses, price \in feed.prices :
           AnalyzeTracked(address, price)
    \/ \E address \in feed.addresses, price \in feed.prices :
           AnalyzeNew(address, price)
    \/ \E call \in analyses, candles \in Backfills(now) :
           BackfillResolves(call, candles)

SpecDetect == InitStrategy(DetectFeeds, {NoFile}) /\ [][NextDetect]_vars

\* Two tokens are analysed HistoryCalls times in all while up to MaxQuarters
\* quarters of an hour pass; the seen-cache may hold both from an earlier run.
HistoryFeeds ==
    [market : {[volume |-> 2000, liquidity |-> 1000, marketCap |-> 30000,
                priceChange1h |-> 6, priceChange24h |-> 10]},
     addresses : {Addresses}, prices : {{70, 75}}, calls : {HistoryCalls},
     quarters : {MaxQuarters}]

HistoryBackfills(t) ==
    {<<>>, Candles(199, 70, 100, t), Candles(200, 70, 100, t)}

NextHistory ==
    \/ \E address \in feed.addresses, price \in feed.prices :
           AnalyzeTracked(address, price)
    \/ \E address \in feed.addresses, price \in feed.prices :
           AnalyzeNew(address, price)
    \/ \E call \in analyses, candles \in HistoryBackfills(now) :
           BackfillResolves(call, candles)
    \/ QuarterPasses

\* The seen-cache file is absent, or one an earlier run saved with both
\* tokens in it.
HistoryFiles ==
    {NoFile} \cup {file \in SavedFiles :
                      get(loadCache(file), "B").timestamp
                          = ScanStartTime - 21 * CACHE_CLEANUP_INTERVAL}

SpecHistory == InitStrategy(HistoryFeeds, HistoryFiles) /\ [][NextHistory]_vars

(* ------------------------------------ strategies: two calls for one address *)
\* analyzeTokenStrategies(address, ...) for a token whose first analysis
\* still awaits loadHistoricalData: the entry is in the Map already, so the
\* whole call runs at once.  Overlapping scans get here when the address is
\* listed under a second chain id, or again after its key was trimmed from
\* the seen set.
AnalyzeDuringBackfill(address, price) ==
    /\ feed.calls > 0
    /\ has(tokenHistory, address)
    /\ \E c \in analyses : c.address = address
    /\ LET call == [address |-> address, price |-> price]
           m == updateTokenHistory(tokenHistory, get(tokenHistory, address), price,
                                   feed.market.volume, now)
       IN /\ tokenHistory' = m
          /\ strategyEvent' = Completed(call, tokenHistory, <<>>, m)
    /\ feed' = [feed EXCEPT !.calls = @ - 1]
    /\ UNCHANGED <<analyses, now, fetchVars, scanVars, filterVars, securityVars,
                   telegramVars, trendVars>>

\* One token is analysed RaceCalls times with no time passing in between.
RaceFeeds ==
    [market : {[volume |-> 2000, liquidity |-> 1000, marketCap |-> 30000,
                priceChange1h |-> 6, priceChange24h |-> 10]},
     addresses : {{"A"}}, prices : {{70, 75, 77}}, calls : {RaceCalls},
     quarters : {0}]

NextRace ==
    \/ \E address \in feed.addresses, price \in feed.prices :
           AnalyzeTracked(address, price)
    \/ \E address \in feed.addresses, price \in feed.prices :
           AnalyzeNew(address, price)
    \/ \E address \in feed.addresses, price \in feed.prices :
           AnalyzeDuringBackfill(address, price)
    \/ \E call \in analyses, candles \in Backfills(now) :
           BackfillResolves(call, candles)

SpecRace == InitStrategy(RaceFeeds, {NoFile}) /\ [][NextRace]_vars

(* --------------------------------------------------- telegram: sendWithRetry *)
\* How bot.telegram.sendMessage settles.
SendOutcomes == {"ok", "rejected"}

\* Variant: the catch block gives up one attempt later.
giveUpLate(attempt) == attempt >= 4

\* The catch block of sendWithRetry: no retry from this attempt on.
giveUp(attempt) == attempt >= 3

\* sendAlert, sendStartup or sendErrorNotification calls sendWithRetry(msg);
\* attempt defaults to 1 and sendMessage is called at once.
SendWithRetry ==
    /\ Len(sendCalls) < MaxMessages
    /\ sendCalls' = Append(sendCalls, [pc |-> "sending", attempt |-> 1,
                                       outcomes |-> <<>>, delay |-> 0,
                                       returned |-> "none"])
    /\ UNCHANGED <<now, fetchVars, scanVars, filterVars, securityVars, strategyVars,
                   trendVars>>

\* The awaited sendMessage settles: return true, or the catch block, which
\* returns false or sleeps 1000 * attempt ms.
SendSettles(m, outcome) ==
    LET call == sendCalls[m]
        tried == [call EXCEPT !.outcomes = Append(@, outcome)]
    IN  /\ call.pc = "sending"
        /\ sendCalls' =
             [sendCalls EXCEPT ![m] =
                IF outcome = "ok"
                THEN [tried EXCEPT !.pc = "returned", !.returned = "true"]
                ELSE IF giveUp(call.attempt)
                     THEN [tried EXCEPT !.pc = "returned", !.returned = "false"]
                     ELSE [tried EXCEPT !.pc = "sleeping",
                                        !.delay = 1000 * call.attempt]]
        /\ UNCHANGED <<now, fetchVars, scanVars, filterVars, securityVars,
                       strategyVars, trendVars>>

\* The backoff timer fires: return sendWithRetry(message, attempt + 1).
BackoffEnds(m) ==
    LET call == sendCalls[m]
    IN  /\ call.pc = "sleeping"
        /\ sendCalls' = [sendCalls EXCEPT ![m] =
                           [call EXCEPT !.pc = "sending", !.attempt = @ + 1,
                                        !.delay = 0]]
        /\ UNCHANGED <<now, fetchVars, scanVars, filterVars, securityVars,
                       strategyVars, trendVars>>

\* The next step of message m's sendWithRetry.
SendStep(m) ==
    /\ m \in DOMAIN sendCalls
    /\ \/ \E outcome \in SendOutcomes : SendSettles(m, outcome)
       \/ BackoffEnds(m)

NextSend ==
    \/ SendWithRetry
    \/ \E m \in DOMAIN sendCalls, outcome \in SendOutcomes : SendSettles(m, outcome)
    \/ \E m \in DOMAIN sendCalls : BackoffEnds(m)

\* The dispatcher scenario: every awaited promise and timer settles.
InitSend == InitWith([calls |-> 0, ticks |-> 0, failures |-> 0])
SpecSend ==
    /\ InitSend
    /\ [][NextSend]_vars
    /\ \A m \in 1..MaxMessages : WF_vars(SendStep(m))

(* ---------------------------------------- trending scanner: scans and alerts *)
\* BoostToken and CommunityTakeover objects as the V1 endpoints return them.
\* key stands for `${chainId}:${tokenAddress}`; data tells whether one of
\* marketCap, liquidity, price is present; a number 0 is an absent or zero
\* field (the code tests these by truthiness); change tells whether
\* priceChange is absent, complete or lacks h24.
Hot == [key |-> 1, data |-> TRUE, liquidity |-> 10000, marketCap |-> 100000,
        change |-> "ok", h24 |-> 20, boosts |-> 3, claimDate |-> FALSE]
Dim == [Hot EXCEPT !.key = 2, !.boosts = 1]
Thin == [Hot EXCEPT !.key = 3, !.liquidity = 100]
Odd == [Hot EXCEPT !.key = 4, !.change = "noH24", !.h24 = 0, !.boosts = 2]
Claimed == [key |-> 5, data |-> FALSE, liquidity |-> 0, marketCap |-> 0,
            change |-> "none", h24 |-> 0, boosts |-> 0, claimDate |-> TRUE]
Bare == [Claimed EXCEPT !.key = 6, !.claimDate = FALSE]
TokenKeys == {Hot.key, Dim.key, Thin.key, Odd.key, Claimed.key, Bare.key}

\* What fetchLatestBoosts, fetchTopBoosts and fetchCommunityTakeovers
\* resolve to in one scan; each resolves to [] on any failure.
TrendResponses ==
    { [latest |-> <<Hot, Dim>>, top |-> <<Hot>>, takeovers |-> <<Claimed>>],
      [latest |-> <<Odd, Hot>>, top |-> <<Thin>>, takeovers |-> <<>>],
      [latest |-> <<>>, top |-> <<Bare>>, takeovers |-> <<>>],
      [latest |-> <<>>, top |-> <<>>, takeovers |-> <<>>] }

\* A seen set of n keys of a scanner that has run for long: the Hot token,
\* seen first, and keys of tokens no longer listed.
Older(n) == [j \in 1..n |-> IF j = 1 THEN Hot.key ELSE 1000 + j]

\* seenTokens.hasKey(tokenKey)
hasKey(seen, key) == \E j \in 1..Len(seen) : seen[j] = key

\* Variant: the trim keeps the oldest keys.
admitKeepsOldest(seen, key) ==
    LET added == Append(seen, key)
    IN  IF Len(added) > 1000 THEN SubSeq(added, 1, Len(added) - 500) ELSE added

\* seenTokens.add(tokenKey), then the trim: above 1000 keys the first 500 in
\* insertion order are deleted.
admit(seen, key) ==
    LET added == Append(seen, key)
    IN  IF Len(added) > 1000 THEN SubSeq(added, 501, Len(added)) ELSE added

Abs(x) == IF x < 0 THEN 0 - x ELSE x

\* The checks of the boost branch, in the code's order.
gate(token) ==
    IF token.liquidity # 0 /\ token.liquidity < minLiquidity THEN "lowLiquidity"
    ELSE IF token.marketCap # 0 /\ token.marketCap < 50000 THEN "lowMarketCap"
    ELSE IF /\ token.change = "ok"
            /\ Abs(token.h24) > 500
            /\ token.liquidity < 5000
         THEN "honeypot"
    ELSE IF token.boosts < 2 THEN "lowBoosts"
    ELSE "pass"

\* formatBoostAlert calls toFixed on priceChange.h24: a TypeError when
\* priceChange is there without h24.
formatThrows(token) == token.change = "noH24"

\* Variant: every scan notifies.
sendNotificationAlways(scan) == TRUE

\* const sendNotification = !isFirstScanThisRun
sendNotification(scan) == ~scan.first

NewTrendScan(first) ==
    [first |-> first, pc |-> "fetching", stage |-> "none", allTrending |-> <<>>,
     i |-> 0, results |-> <<>>, analysed |-> {}, pending |-> 0]

NoAlerts == [alerts |-> [k \in TokenKeys |-> 0], collected |-> {}, sent |-> {}]

\* processTrendingToken returns to the loop of scanTrendingTokens, which then
\* sleeps 500 ms.
returned(scan, result) ==
    [scan EXCEPT !.results = Append(@, result), !.pc = "sleeping", !.stage = "none",
                 !.pending = 0]

\* Variant: an exception ends the scan.
caughtEndsScan(scan) ==
    [scan EXCEPT !.results = Append(@, "error"), !.pc = "done", !.stage = "none"]

\* The catch block of processTrendingToken: log, return false.
caught(scan) == returned(scan, "error")

\* processTrendingToken up to its first await, for candidate i.
enter(scan, i, seen, ledger) ==
    LET token == scan.allTrending[i]
        at == [scan EXCEPT !.i = i]
    IN  IF hasKey(seen, token.key)
        THEN [scan |-> returned(at, "seen"), seen |-> seen, ledger |-> ledger]
        ELSE LET kept == admit(seen, token.key)
                 evicted == {k \in TokenKeys : hasKey(seen, k) /\ ~hasKey(kept, k)}
                 noted ==
                   [ledger EXCEPT
                      !.alerts = [k \in TokenKeys |->
                                    IF k \in evicted \/ k = token.key THEN 0 ELSE @[k]],
                      !.collected = (@ \cup (IF scan.first THEN {token.key} ELSE {}))
                                    \ evicted]
             IN  [scan |-> IF isFirstScan
                           THEN returned(at, "collected")
                           ELSE [at EXCEPT !.pc = "token", !.stage = "pairData"],
                  seen |-> kept,
                  ledger |-> noted]

\* processTrendingToken after the pair data: the boost branch, the takeover
\* branch, or neither.
evaluate(scan) ==
    LET token == scan.allTrending[scan.i]
    IN  IF token.data
        THEN IF gate(token) # "pass" THEN returned(scan, "filtered")
             ELSE IF ~sendNotification(scan) THEN returned(scan, "quiet")
             ELSE IF formatThrows(token) THEN caught(scan)
             ELSE [scan EXCEPT !.stage = "alert"]
        ELSE IF token.claimDate
             THEN IF sendNotification(scan)
                  THEN [scan EXCEPT !.stage = "alert"]
                  ELSE returned(scan, "quiet")
             ELSE returned(scan, "none")

FirstScanRunning ==
    \E s \in DOMAIN trendScans : trendScans[s].first /\ trendScans[s].pc # "done"

\* sendBoostAlert was called with a message about the token; the caller does
\* not look at what it returns.
dispatch(ledger, scan, kind) ==
    LET key == scan.allTrending[scan.i].key
    IN  [ledger EXCEPT
           !.alerts[key] = IF kind # "strategy" /\ hasKey(seenTokens, key)
                           THEN @ + 1 ELSE @,
           !.sent = @ \cup {[key |-> key, kind |-> kind, first |-> scan.first,
                             during |-> FirstScanRunning,
                             collected |-> key \in ledger.collected]}]

\* scanTrendingTokens up to its first await.
Begins ==
    /\ trendScans' = Append(trendScans, NewTrendScan(isFirstScan))
    /\ isFirstScan' = FALSE
    /\ UNCHANGED <<seenTokens, trendLedger, now, fetchVars, scans, seenPairs,
                   cacheFile, lastCleanup, announced, scanEvent, filterVars,
                   securityVars, strategyVars, telegramVars>>

\* startTrendingScanner: the initial scan, awaited.
StartTrendingScanner ==
    /\ poll.mode = "trending"
    /\ ~poll.started
    /\ poll' = [poll EXCEPT !.started = TRUE]
    /\ Begins

\* setInterval(scanTrendingTokens, pollInterval): a tick, whether or not
\* earlier scans have finished.
IntervalFires ==
    /\ poll.timer
    /\ Len(trendScans) < env.calls
    /\ poll' = poll
    /\ Begins

\* Scan s goes on to r; when the awaited initial scan is done,
\* startTrendingScanner sets the interval timer.
Becomes(s, r) ==
    /\ \E next \in {r} :
          /\ trendScans' = [trendScans EXCEPT ![s] = next.scan]
          /\ seenTokens' = next.seen
          /\ trendLedger' = next.ledger
          /\ poll' = IF next.scan.pc = "done" /\ next.scan.first
                     THEN [poll EXCEPT !.timer = TRUE]
                     ELSE poll
    /\ UNCHANGED <<isFirstScan, now, fetchVars, scans, seenPairs, cacheFile,
                   lastCleanup, announced, scanEvent, filterVars, securityVars,
                   strategyVars, telegramVars>>

Same(scan) == [scan |-> scan, seen |-> seenTokens, ledger |-> trendLedger]

\* Promise.all of the three fetches resolves: allTrending is built and the
\* first candidate entered.
FetchesResolve(s, response) ==
    LET scan == trendScans[s]
        unseen(token) == ~hasKey(seenTokens, token.key)
        all == response.latest \o SelectSeq(response.top, unseen)
               \o response.takeovers
    IN  /\ scan.pc = "fetching"
        /\ Becomes(s, IF all = <<>>
                      THEN Same([scan EXCEPT !.pc = "done"])
                      ELSE enter([scan EXCEPT !.allTrending = all], 1, seenTokens,
                                 trendLedger))

\* getTokenPairData settles; its value is not used by processTrendingToken.
PairDataSettles(s) ==
    LET scan == trendScans[s]
    IN  /\ scan.pc = "token"
        /\ scan.stage = "pairData"
        /\ Becomes(s, Same(evaluate(scan)))

\* The boost or takeover alert's sendBoostAlert settles; runStrategyAnalysis
\* is called.
AlertSettles(s) ==
    LET scan == trendScans[s]
        kind == IF scan.allTrending[scan.i].data THEN "boost" ELSE "takeover"
    IN  /\ scan.pc = "token"
        /\ scan.stage = "alert"
        /\ Becomes(s, [scan |-> [scan EXCEPT !.stage = "analysis",
                                             !.analysed = @ \cup {scan.i}],
                       seen |-> seenTokens,
                       ledger |-> dispatch(trendLedger, scan, kind)])

\* runStrategyAnalysis: the pair data and analyzeTokenStrategies settle with
\* n messages; an exception is caught and leaves none.
AnalysisSettles(s, n) ==
    LET scan == trendScans[s]
    IN  /\ scan.pc = "token"
        /\ scan.stage = "analysis"
        /\ Becomes(s, Same(IF n = 0
                           THEN returned(scan, "alerted")
                           ELSE [scan EXCEPT !.stage = "strategyAlert",
                                             !.pending = n]))

\* One strategy message: sendBoostAlert settles, then 300 ms.
StrategyAlertSettles(s) ==
    LET scan == trendScans[s]
    IN  /\ scan.pc = "token"
        /\ scan.stage = "strategyAlert"
        /\ Becomes(s, [scan |-> IF scan.pending = 1
                                THEN returned(scan, "alerted")
                                ELSE [scan EXCEPT !.pending = @ - 1],
                       seen |-> seenTokens,
                       ledger |-> dispatch(trendLedger, scan, "strategy")])

\* The 500 ms between candidates is over: the next candidate, or the end of
\* the scan.
NextCandidate(s) ==
    LET scan == trendScans[s]
    IN  /\ scan.pc = "sleeping"
        /\ Becomes(s, IF scan.i < Len(scan.allTrending)
                      THEN enter(scan, scan.i + 1, seenTokens, trendLedger)
                      ELSE Same([scan EXCEPT !.pc = "done"]))

\* A scan under way takes its next step.
Scanning ==
    \/ \E s \in DOMAIN trendScans, response \in TrendResponses : FetchesResolve(s, response)
    \/ \E s \in DOMAIN trendScans : PairDataSettles(s)
    \/ \E s \in DOMAIN trendScans : AlertSettles(s)
    \/ \E s \in DOMAIN trendScans, n \in 0..MaxStrategyAlerts : AnalysisSettles(s, n)
    \/ \E s \in DOMAIN trendScans : StrategyAlertSettles(s)
    \/ \E s \in DOMAIN trendScans : NextCandidate(s)

NextTrend == StartTrendingScanner \/ IntervalFires \/ Scanning
NextSeen == IntervalFires \/ Scanning

\* The trending scanner with a given number of scans, polling state, seen
\* set and first-scan flag.
InitTrending(n, p, seen, first) ==
    /\ env = [calls |-> n, ticks |-> 0, failures |-> 0]
    /\ circuitBreaker = [state |-> CLOSED, failureCount |-> 0, successCount |-> 0,
                         lastFailureTime |-> 0]
    /\ requestQueue = [queue |-> <<>>, processing |-> FALSE, activeRequests |-> 0]
    /\ active = EmptyBag
    /\ lastReturn = NoReturn
    /\ lastStarted = <<>>
    /\ halfOpenRun = 0
    /\ failureRun = 0
    /\ lastFailureAt = 0
    /\ scans = EmptyBag
    /\ seenPairs = <<>>
    /\ cacheFile = NoFile
    /\ lastCleanup = StartTime
    /\ announced = {}
    /\ scanEvent = NoScanEvent
    /\ now = StartTime
    /\ pair = NoPair
    /\ verdicts = <<>>
    /\ SecurityIdle
    /\ StrategyIdle
    /\ TelegramIdle
    /\ trendScans = <<>>
    /\ trendLedger = NoAlerts
    /\ poll = p
    /\ seenTokens \in seen
    /\ isFirstScan = first

\* The startup scenario: a scanner just constructed.
InitTrend ==
    InitTrending(MaxTrendScans,
                 [mode |-> "trending", started |-> FALSE, timer |-> FALSE],
                 {<<>>}, TRUE)
SpecTrend == InitTrend /\ [][NextTrend]_vars

\* The long-run scenario: a scanner that has run for long, with 999 or 1000
\* keys in its seen set, no scan under way and the interval timer set.
InitSeen ==
    InitTrending(MaxSeenScans,
                 [mode |-> "trending", started |-> TRUE, timer |-> TRUE],
                 {Older(999), Older(1000)}, FALSE)
SpecSeen == InitSeen /\ [][NextSeen]_vars

(* ----------------------------------------------------------------- claims *)
Range(q) == {q[i] : i \in 1..Len(q)}

\* Every logical call admitted and not finished.
AllCalls == Range(requestQueue.queue) \cup BagToSet(active)

\* This step recorded a failure to the breaker.
FailureRecorded == failureRun' = failureRun + 1

\* This step is a fetchWithRetry invocation: it returned at once (refused or
\* invalid url) or admitted a call.
CallAttempted ==
    \/ lastReturn'.via \in {"refused", "invalidUrl"}
    \/ Outstanding' > Outstanding

\* The call admitted by the Open -> HalfOpen step has not recorded its outcome.
TrialPending == \E call \in AllCalls : call.trial /\ call.recorded = <<>>

\* C1: a failure recorded while the breaker is HalfOpen moves it to Open at
\* once, whatever the failure count and the successes recorded before it.
C1_HalfOpenFailureReopens ==
    [][(circuitBreaker.state = HALF_OPEN /\ FailureRecorded)
         => circuitBreaker'.state = OPEN]_vars

\* C2: a Closed breaker has seen fewer than failureThreshold consecutive
\* failures, stays Closed while the run stays below the threshold and is Open
\* right after the failure that completes a run of failureThreshold.
C2_ClosedUntilThreshold ==
    [][circuitBreaker.state = CLOSED
         => /\ failureRun < failureThreshold
            /\ circuitBreaker'.state =
                 (IF failureRun' >= failureThreshold THEN OPEN ELSE CLOSED)]_vars

C2_Witness ==
    /\ circuitBreaker.state = OPEN
    /\ failureRun = failureThreshold
    /\ lastReturn.via = "completed"

\* C3: while the HalfOpen trial call has not recorded its outcome, no other
\* fetchWithRetry call is admitted to the queue or the network.
C3_SingleTrial == [][TrialPending => Outstanding' <= Outstanding]_vars

\* C4: the breaker goes from HalfOpen to Closed only on the success that
\* completes successThreshold successes recorded in HalfOpen with no failure
\* recorded between them.
C4_CloseNeedsConsecutive ==
    [][(circuitBreaker.state = HALF_OPEN /\ circuitBreaker'.state = CLOSED)
         => halfOpenRun' >= successThreshold]_vars

\* C5: a call attempted while the breaker is Open less than `timeout` after
\* the last recorded failure returns null, is not enqueued, starts no network
\* attempt and leaves the breaker as it was.
C5_OpenFailsFast ==
    [][(circuitBreaker.state = OPEN /\ now - lastFailureAt < timeout /\ CallAttempted)
         => /\ lastReturn'.via = "refused"
            /\ lastReturn'.value = "null"
            /\ UNCHANGED <<circuitBreaker, requestQueue, active>>]_vars

C5_Witness ==
    /\ lastReturn.via = "refused"
    /\ lastReturn.value = "null"
    /\ circuitBreaker.state = OPEN
    /\ now - lastFailureAt < timeout
    /\ now > lastFailureAt

\* C6: an Open breaker leaves Open only for HalfOpen, and does so exactly on
\* a call attempted `timeout` or more after the most recent recorded failure;
\* that call is not refused by the breaker.
C6_HalfOpenAfterCooldown ==
    [][circuitBreaker.state = OPEN
         => /\ circuitBreaker'.state \in {OPEN, HALF_OPEN}
            /\ circuitBreaker'.state = HALF_OPEN
                 <=> (CallAttempted /\ now - lastFailureAt >= timeout)
            /\ circuitBreaker'.state = HALF_OPEN => lastReturn'.via # "refused"]_vars

C6_Witness ==
    /\ circuitBreaker.state = HALF_OPEN
    /\ now - lastFailureAt = timeout
    /\ \E call \in AllCalls : call.trial

\* C7 as stated: the promise fetchWithRetry returns is never rejected.
C7_NeverRejects == lastReturn.value # "rejected"

\* C7 as amended: a call with an http/https url resolves to data or null and
\* is never rejected; a call with any other url resolves to null when the
\* breaker refuses it and is rejected with 'Invalid URL' otherwise.
C7_RejectsOnlyInvalidUrl ==
    lastReturn.via # "none"
      => IF lastReturn.urlOk
         THEN lastReturn.value \in {"data", "null"}
         ELSE \/ lastReturn.via = "refused" /\ lastReturn.value = "null"
              \/ lastReturn.via = "invalidUrl" /\ lastReturn.value = "rejected"

C7_Witness ==
    /\ lastReturn.via = "completed"
    /\ lastReturn.value = "null"
    /\ lastReturn.urlOk
    /\ circuitBreaker.state = OPEN

\* C8: an admitted call records nothing while its attempts run or sleep and
\* exactly one outcome when it returns: a success with the data, a failure
\* with null after exactly `retries` network attempts; it never makes more
\* than `retries` network attempts.
C8_OneOutcomePerCall ==
    \A call \in AllCalls :
        /\ call.networkAttempts <= call.retries
        /\ call.pc = "queued" => call.recorded = <<>> /\ call.networkAttempts = 0
        /\ call.pc \in {"running", "sleeping"}
             => call.recorded = <<>> /\ call.networkAttempts = call.attempt
        /\ call.pc = "settled"
             => \/ call.result = "data" /\ call.recorded = <<"success">>
                \/ /\ call.result = "null"
                   /\ call.recorded = <<"failure">>
                   /\ call.networkAttempts = call.retries

C8_Witness ==
    \E call \in BagToSet(active) :
        /\ call.pc = "settled"
        /\ call.result = "null"
        /\ call.retries > 1
        /\ call.networkAttempts = call.retries

\* C9: at most maxConcurrent calls are in flight in every reachable state.
C9_AtMostMaxConcurrent ==
    /\ BagCardinality(active) <= maxConcurrent
    /\ requestQueue.activeRequests <= maxConcurrent

C9_Witness ==
    /\ BagCardinality(active) = maxConcurrent
    /\ Len(requestQueue.queue) >= 2

\* C10: calls start in the order they were added: every call a step starts
\* was the oldest waiting call when it was started, and the queue holds the
\* waiting calls in arrival order.
C10_FifoStart ==
    /\ \A i \in 1..Len(lastStarted) : lastStarted[i] = 1
    /\ \A i \in 1..Len(requestQueue.queue) : requestQueue.queue[i].seq = i

C10_Witness ==
    /\ lastStarted = <<1>>
    /\ Len(requestQueue.queue) >= 1

\* C11: whenever a step has returned to the event loop, calls wait in the
\* queue only while maxConcurrent calls are in flight; and while a call waits,
\* the oldest waiting call is eventually started, so that (starts being oldest
\* first) a call waiting at rank k is started by the k-th start that follows.
C11_NoCallStranded ==
    /\ [](Len(requestQueue.queue) > 0
            => /\ requestQueue.activeRequests = maxConcurrent
               /\ BagCardinality(active) = maxConcurrent)
    /\ (Len(requestQueue.queue) > 0) ~> (lastStarted = <<1>>)

C11_Witness ==
    /\ lastStarted = <<1>>
    /\ Len(requestQueue.queue) = ExtraCalls - 1
    /\ requestQueue.activeRequests = maxConcurrent
    /\ \A call \in BagToSet(active) : call.pc # "settled"

\* The addresses this step's fetchNewPairs call returned as new.
ReturnedNow == {scanEvent'.returned[i].pair.pairAddress : i \in 1..Len(scanEvent'.returned)}

\* C12: at most one poll tick (scanLoop or scanTrendingTokens) is in progress
\* in every reachable state.
C12_TicksNeverOverlap == BagCardinality(scans) <= 1

\* C13: no fetchNewPairs call returns as new an address that an earlier call
\* returned as new, unless the address was removed from the seen-cache (by an
\* eviction sweep or clearCache) in between.
C13_NewAtMostOnce == [][ReturnedNow \cap announced = {}]_vars

Entries(m) == {m[i] : i \in 1..Len(m)}

\* A returned pair, as the call that returned it saw it, passed every gate.
PassedEveryGate(r) ==
    /\ r.pair.pairCreatedAt # 0
    /\ r.now - r.pair.pairCreatedAt <= maxAge
    /\ r.pair.dexId \in {"pumpfun", "moonshot"}
    /\ r.isSafe

\* C14: a fetchNewPairs step writes a seen-cache entry only for a pair it
\* returns, which passed every gate in that call; and the pairs a poll
\* evaluates are the observed pairs that have no entry, so a pair that failed
\* a gate is evaluated again whenever it is observed.
C14_InsertOnlyPassed ==
    scanEvent.op \in {"begun", "searched", "returned"}
      => /\ \A e \in Entries(seenPairs) \ Entries(scanEvent.before) :
                \E i \in 1..Len(scanEvent.returned) :
                    /\ scanEvent.returned[i].pair.pairAddress = e.key
                    /\ PassedEveryGate(scanEvent.returned[i])
         /\ scanEvent.evaluated = scanEvent.observed \ keys(scanEvent.before)

C14_Witness ==
    /\ scanEvent.op = "returned"
    /\ scanEvent.gated = {"A", "B"}
    /\ Len(scanEvent.returned) = 1
    /\ keys(seenPairs) = {scanEvent.returned[1].pair.pairAddress}

\* C15: every pair fetchNewPairs returns has a creation timestamp, was at
\* most maxAgeMinutes old, is on a dex whose liquidity counts as locked and
\* passed the rug check, all in that call; the returned pairs have distinct
\* addresses.
C15_ReturnedPassedAllGates ==
    /\ \A i \in 1..Len(scanEvent.returned) : PassedEveryGate(scanEvent.returned[i])
    /\ \A i, j \in 1..Len(scanEvent.returned) :
           scanEvent.returned[i].pair.pairAddress = scanEvent.returned[j].pair.pairAddress
             => i = j

C15_Witness ==
    /\ Len(scanEvent.returned) = 2
    /\ \E i \in 1..2 : scanEvent.returned[i].pair.dexId = "moonshot"

\* C16: an eviction sweep removes the entries first seen more than maxCacheAge
\* (24h) ago, and leaves every other entry present and unchanged.
C16_SweepEvictsOlderThanDay ==
    scanEvent.swept
      => /\ \A e \in Entries(scanEvent.before) :
                IF now - e.value.timestamp > maxCacheAge
                THEN ~has(seenPairs, e.key)
                ELSE e \in Entries(seenPairs)
         /\ Entries(seenPairs) \subseteq Entries(scanEvent.before)

C16_Witness ==
    /\ scanEvent.swept
    /\ has(scanEvent.before, "A")
    /\ ~has(seenPairs, "A")
    /\ \E e \in Entries(seenPairs) :
           e.key = "B" /\ now - e.value.timestamp = 23 * CACHE_CLEANUP_INTERVAL

\* C17: the cache file always loads to the seen-cache held in memory: after
\* an insert, a sweep or clearCache, and so across a restart.
C17_FileMatchesMemory == loadCache(cacheFile) = seenPairs

C17_Witness ==
    /\ scanEvent.op = "restarted"
    /\ Len(seenPairs) = 2
    /\ \E e \in Entries(seenPairs) : e.value.timestamp > ScanStartTime

\* The six rejecting stages of the filter in their order, each as a condition
\* on the snapshot p evaluated at time t, and the reason each reports.
StageFails(stage, p, t) ==
    CASE stage = 1 -> \E word \in Range(bannedWords) :
                          \/ includes(toLowerCase(p.symbol), word)
                          \/ includes(toLowerCase(p.name), word)
      [] stage = 2 -> p.liquidity < minLiquidity
      [] stage = 3 -> p.volume5m < minVolume5m
      [] stage = 4 -> /\ p.volume24h < minVolume24h
                      /\ p.pairCreatedAt # 0
                      /\ t - p.pairCreatedAt > 60 * 60000
      [] stage = 5 -> p.liquidity > 0 /\ p.fdv > 1000 * p.liquidity
      [] stage = 6 -> p.priceChange > 300 /\ p.volume5m < 1000

StageReason ==
    <<"Banned word detected", "Low liquidity", "Low volume 5m", "Low volume 24h",
      "Suspicious FDV/Liquidity ratio (Potential Scam)", "Honeypot pattern detected">>

\* C18: a verdict passes when no stage fails, and otherwise fails with the
\* reason of the first failing stage in the order banned word, liquidity, 5m
\* volume, 24h volume, FDV/liquidity ratio, honeypot.
C18_FirstFailingStage ==
    \A i \in 1..Len(verdicts) :
        LET v == verdicts[i]
            failing == {stage \in 1..6 : StageFails(stage, pair, v.at)}
        IN IF failing = {}
           THEN v.result.passed /\ v.result.reason = NoReason
           ELSE /\ ~v.result.passed
                /\ \E stage \in failing :
                       /\ \A other \in failing : stage <= other
                       /\ v.result.reason.text = StageReason[stage]

C18_Witness ==
    /\ Len(verdicts) > 0
    /\ StageFails(1, pair, verdicts[1].at)
    /\ StageFails(2, pair, verdicts[1].at)
    /\ verdicts[1].result.reason.text = "Banned word detected"

\* C19: every evaluation of the snapshot gives the same verdict.
C19_SameVerdictEachTime ==
    \A i, j \in 1..Len(verdicts) : verdicts[i].result = verdicts[j].result

\* The snapshot of the end-to-end example, evaluated at time t: liquidity
\* 5000, 5m volume 500, age 5 minutes, no banned word, 5m price change 20,
\* FDV/liquidity 10.
EndToEndExample(p, t) ==
    /\ p.liquidity = 5000
    /\ p.volume5m = 500
    /\ p.pairCreatedAt # 0
    /\ t - p.pairCreatedAt = 5 * 60000
    /\ ~StageFails(1, p, t)
    /\ p.priceChange = 20
    /\ p.fdv = 10 * p.liquidity

\* C20 as stated: the example snapshot passes with no warning.
C20_PassesWithoutWarnings ==
    \A i \in 1..Len(verdicts) :
        EndToEndExample(pair, verdicts[i].at)
          => verdicts[i].result.passed /\ verdicts[i].result.warnings = <<>>

\* C20 as amended: the example snapshot passes; it has no warning when its
\* 24h volume is 5000 or more, and the one warning 'Low volume 24h' otherwise.
C20_PassesWarnsOnLowVolume24h ==
    \A i \in 1..Len(verdicts) :
        EndToEndExample(pair, verdicts[i].at)
          => /\ verdicts[i].result.passed
             /\ verdicts[i].result.warnings =
                  (IF pair.volume24h >= 5000 THEN <<>> ELSE <<"Low volume 24h">>)

C20_Witness ==
    /\ Len(verdicts) > 0
    /\ EndToEndExample(pair, verdicts[1].at)
    /\ pair.volume24h = 5000
    /\ verdicts[1].result.passed
    /\ verdicts[1].result.warnings = <<>>

\* The conditions on which filterTokenWithSecurity rejects a token that
\* filterToken passed, under the settings cfg.
SecurityRejects(p, cfg, lookup) ==
    LET security == checkTokenSecurity(p, lookup) IN
    \/ cfg.enableMintAuthorityCheck /\ security.mintAuthorityEnabled
    \/ /\ cfg.enableHolderDistributionCheck
       /\ security.top10HolderPercent > cfg.maxHolderConcentration

\* The security lookups of this filterTokenWithSecurity call were made.
LookupsMade(e) ==
    /\ e.basic.passed
    /\ \/ scannerConfig.enableMintAuthorityCheck
       \/ scannerConfig.enableLiquidityLockCheck
       \/ scannerConfig.enableHolderDistributionCheck

\* C21: a verdict of filterToken or of filterTokenWithSecurity has a reason
\* exactly when it did not pass, and it fails only when a rejecting stage
\* fails: a snapshot that meets warning conditions alone passes.
C21_ReasonIffFailed ==
    /\ \A i \in 1..Len(verdicts) :
           LET v == verdicts[i] IN
           /\ v.result.reason # NoReason <=> ~v.result.passed
           /\ ~v.result.passed => \E stage \in 1..6 : StageFails(stage, pair, v.at)
    /\ \A i \in 1..Len(securityVerdict) :
           LET e == securityVerdict[i] IN
           /\ e.result.reason # NoReason <=> ~e.result.passed
           /\ ~e.result.passed
                => \/ \E stage \in 1..6 : StageFails(stage, pair, e.at)
                   \/ LookupsMade(e) /\ SecurityRejects(pair, scannerConfig, e.lookup)

C21_Witness ==
    /\ Len(verdicts) > 0
    /\ verdicts[1].result.passed
    /\ Len(verdicts[1].result.warnings) = 6
    /\ Len(securityVerdict) = 1
    /\ scannerConfig.enableHolderDistributionCheck
    /\ securityVerdict[1].result.passed
    /\ securityVerdict[1].result.reason = NoReason
    /\ securityVerdict[1].result.warnings =
         <<"High FDV/Liquidity ratio", "High pump", "Very new (<2m)", "Low liquidity",
           "Low volume 5m", "Low volume 24h", "Liquidity NOT locked",
           "High holder concentration">>

\* The TokenSecurity record as checkTokenSecurity first builds it.
DefaultSecurity ==
    [mintAuthorityEnabled |-> FALSE, freezeAuthorityEnabled |-> FALSE,
     liquidityLocked |-> FALSE, liquidityLockedPercent |-> 0,
     top10HolderPercent |-> 0, totalSupply |-> 0, checked |-> FALSE]

\* C22: when the metadata lookup of a token that passed the basic filter
\* fails, the verdict passes, its security is null or holds no finding, and
\* its warnings are those of the basic filter (and of the liquidity-lock
\* stage, which uses no lookup).
C22_FailedLookupLeavesSecurityUnset ==
    \A i \in 1..Len(securityVerdict) :
        LET e == securityVerdict[i] IN
        (LookupsMade(e) /\ ~e.lookup.metadata.found)
          => /\ e.result.passed
             /\ e.result.security \in {NoSecurity, DefaultSecurity}
             /\ e.result.warnings =
                  e.basic.warnings
                    \o (IF /\ scannerConfig.enableLiquidityLockCheck
                           /\ ~checkLiquidityLock(pair).locked
                        THEN <<"Liquidity NOT locked">> ELSE <<>>)

\* C23: the holder share rejects or warns only when the holder-concentration
\* check is enabled: above the configured maximum it rejects, otherwise above
\* 20% it adds a warning; with the check disabled the verdict is the one a
\* token without holders gets.
C23_HolderStageOnlyWhenEnabled ==
    \A i \in 1..Len(securityVerdict) :
        LET e == securityVerdict[i]
            share == checkTokenSecurity(pair, e.lookup).top10HolderPercent
            warned == \E k \in 1..Len(e.result.warnings) :
                          e.result.warnings[k] = "High holder concentration"
            mintRejected ==
                e.result.reason.text = "Mint authority is enabled (can mint more tokens)"
        IN (LookupsMade(e) /\ ~mintRejected)
             => IF scannerConfig.enableHolderDistributionCheck
                THEN IF share > scannerConfig.maxHolderConcentration
                     THEN /\ ~e.result.passed
                          /\ e.result.reason.text = "High holder concentration"
                     ELSE e.result.passed /\ (warned <=> share > 20)
                ELSE e.result.passed /\ ~warned

(* ------------------------------------------------------ claims: strategies *)
\* The analyzeTokenStrategies call that completed in this step, if one did.
Analysed == strategyEvent # <<>>

\* The history the detectors of that call read.
AnalysedPrices == get(tokenHistory, strategyEvent[1].address).prices

\* The volumes of the most recent min(20, available) points of that history.
RecentVolumes ==
    LET volumes == [i \in 1..Len(AnalysedPrices) |-> AnalysedPrices[i].volume]
    IN lastN(volumes, Min(20, Len(volumes)))

\* C24 (as amended): the Volume Spike detector triggers if and only if the
\* token's history has at least 5 points, the average volume of the most
\* recent min(20, available) points is positive, currentVolume is at least 3
\* times that average and the price change is at least 5%; with an average
\* volume of 100 and a price change of 6%, a current volume of 301 triggers
\* and one of 299 does not.
C24_SpikeIffPositiveAverage ==
    Analysed =>
        LET e == strategyEvent[1]
            n == Len(RecentVolumes)
            total == Sum(RecentVolumes)
        IN /\ e.analysis.volumeResult.triggered
                <=> /\ Len(AnalysedPrices) >= 5
                    /\ total > 0
                    /\ feed.market.volume * n >= 3 * total
                    /\ feed.market.priceChange1h >= 5
           /\ (Len(AnalysedPrices) >= 5 /\ total = 100 * n
                    /\ feed.market.priceChange1h = 6)
                => /\ feed.market.volume = 301 => e.analysis.volumeResult.triggered
                   /\ feed.market.volume = 299 => ~e.analysis.volumeResult.triggered

\* C24 witness: on an average volume of exactly 100 and a price change of 6%
\* a current volume of 301 triggered the detector.
C24_Witness ==
    /\ Analysed
    /\ Len(AnalysedPrices) >= 5
    /\ Sum(RecentVolumes) = 100 * Len(RecentVolumes)
    /\ feed.market.priceChange1h = 6
    /\ feed.market.volume = 301
    /\ strategyEvent[1].analysis.volumeResult.triggered

\* C24 as stated: the detector triggers if and only if the history has at
\* least 5 points, currentVolume >= 3 x the average volume of the most recent
\* min(20, available) points and the price change is >= 5%.
C24_SpikeIff ==
    Analysed =>
        (strategyEvent[1].analysis.volumeResult.triggered
            <=> /\ Len(AnalysedPrices) >= 5
                /\ feed.market.volume * Len(RecentVolumes) >= 3 * Sum(RecentVolumes)
                /\ feed.market.priceChange1h >= 5)

\* C25: whenever the Volume Spike detector evaluates a token with at least 5
\* history points, its result reports the current volume, the average volume
\* and their ratio, whether or not it triggers.
C25_RatioAlwaysReported ==
    (Analysed /\ Len(AnalysedPrices) >= 5) =>
        LET details == strategyEvent[1].analysis.volumeResult.details
        IN /\ "currentVolume" \in DOMAIN details
           /\ "avgVolume" \in DOMAIN details
           /\ {"ratio", "spikeRatio"} \cap DOMAIN details # {}

\* The prices of the most recent 10 points of the analysed history.
RecentPrices ==
    LET recent == lastN(AnalysedPrices, 10)
    IN {recent[i].price : i \in 1..Len(recent)}

RecentHigh == CHOOSE x \in RecentPrices : \A y \in RecentPrices : y <= x
RecentLow == CHOOSE x \in RecentPrices : \A y \in RecentPrices : x <= y

C26_ExampleReached ==
    /\ Analysed
    /\ Len(AnalysedPrices) >= 10
    /\ RecentHigh = 100 /\ RecentLow = 70 /\ strategyEvent[1].price = 75
    /\ feed.market.priceChange1h >= 2
    /\ ~strategyEvent[1].analysis.momentumResult.triggered

\* The market numbers meet the four thresholds of the Fresh Token detector.
StrongMetrics ==
    /\ feed.market.liquidity >= 1000
    /\ feed.market.volume >= 2000
    /\ feed.market.marketCap >= 30000
    /\ feed.market.priceChange24h >= 10

\* The analysed token had a history of more than 5 points before the call.
HadMoreThanFive ==
    LET e == strategyEvent[1]
    IN has(e.before, e.address) /\ Len(get(e.before, e.address).prices) > 5

C27_NoLongerFresh ==
    /\ Analysed
    /\ HadMoreThanFive
    /\ StrongMetrics
    /\ get(strategyEvent[1].before, strategyEvent[1].address).historicalLoaded
    /\ ~strategyEvent[1].analysis.freshResult.triggered

\* The detectors that triggered in the completed call, in the order they run.
Triggered ==
    LET a == strategyEvent[1].analysis
    IN SelectSeq(<<[type |-> "VOLUME_SPIKE", result |-> a.volumeResult],
                   [type |-> "MOMENTUM_BACK", result |-> a.momentumResult],
                   [type |-> "FRESH_TOKEN", result |-> a.freshResult]>>,
                 LAMBDA d : d.result.triggered)

\* C28 (as amended): Volume Spike can fire in the same analyzeTokenStrategies
\* call as Momentum Back or as Fresh Token, but Momentum Back (at least 10
\* points) and Fresh Token (at most 5 points) never fire in the same call;
\* each detector that fires contributes its own message and its own alert
\* record, in the order the detectors run.
C28_EachFiredDetectorReports ==
    Analysed =>
        LET a == strategyEvent[1].analysis IN
        /\ ~(a.momentumResult.triggered /\ a.freshResult.triggered)
        /\ a.result.triggered <=> Len(Triggered) > 0
        /\ a.result.messages = [k \in 1..Len(Triggered) |-> Triggered[k].result.message]
        /\ a.alerts = [k \in 1..Len(Triggered) |->
                          [tokenAddress |-> strategyEvent[1].address,
                           type |-> Triggered[k].type,
                           details |-> Triggered[k].result.details]]

\* C28 witness: Volume Spike and Momentum Back fired in the same call, with
\* two messages and two alert records.
C28_Witness ==
    /\ Analysed
    /\ strategyEvent[1].analysis.volumeResult.triggered
    /\ strategyEvent[1].analysis.momentumResult.triggered
    /\ strategyEvent[1].analysis.result.messages = <<"VOLUME SPIKE", "MOMENTUM BACK">>
    /\ Len(strategyEvent[1].analysis.alerts) = 2

\* Volume Spike and Fresh Token fired in the same call.
C28_SpikeAndFresh ==
    /\ Analysed
    /\ strategyEvent[1].analysis.volumeResult.triggered
    /\ strategyEvent[1].analysis.freshResult.triggered
    /\ Len(strategyEvent[1].analysis.alerts) = 2

\* C28 as stated: some evaluation (market numbers, a backfill outcome and the
\* prices of a first and possibly a second analysis of a token, made now) has
\* Volume Spike, Momentum Back and Fresh Token all firing in the same
\* analyzeTokenStrategies call.
C28_AllThreeCanFire ==
    \E market \in Markets, candles \in Backfills(now), price \in Prices,
       again \in {<<>>} \cup {<<p>> : p \in Prices} :
        LET created == NewHistory("A", now)
            historicalPrices == loadHistoricalData(candles)
            history == IF Len(historicalPrices) > 0
                       THEN [created EXCEPT !.prices = historicalPrices,
                                            !.historicalLoaded = TRUE]
                       ELSE created
            first == updateTokenHistory(set(<<>>, "A", created), history, price,
                                        market.volume, now)
            m == IF again = <<>> THEN first
                 ELSE updateTokenHistory(first, get(first, "A"), again[1],
                                         market.volume, now)
            a == analyzeTokenStrategies(m, "A", market,
                                        IF again = <<>> THEN price ELSE again[1])
        IN /\ a.volumeResult.triggered
           /\ a.momentumResult.triggered
           /\ a.freshResult.triggered

\* The points the analysed token had when its update reached the price
\* point: the backfill if one was loaded, else what was stored before.
PointsBefore ==
    LET e == strategyEvent[1]
    IN IF e.candles # <<>> THEN loadHistoricalData(e.candles)
       ELSE IF has(e.before, e.address) THEN get(e.before, e.address).prices
       ELSE <<>>

\* Those points and the new one, if its price differs from the last of them.
PointsArrived ==
    LET e == strategyEvent[1]
        point == [price |-> e.price, timestamp |-> e.at, volume |-> feed.market.volume]
    IN IF PointsBefore = <<>> \/ PointsBefore[Len(PointsBefore)].price # e.price
       THEN Append(PointsBefore, point)
       ELSE PointsBefore

\* C29: every stored history has at most 200 points; an update appends the
\* new point exactly when its price differs from the price of the last stored
\* point, and keeps the most recent 200 points in arrival order; the
\* detectors' results are those of the history after the update.
C29_CappedDedupedBeforeDetectors ==
    /\ \A i \in 1..Len(tokenHistory) : Len(tokenHistory[i].value.prices) <= 200
    /\ Analysed =>
        LET e == strategyEvent[1]
            arrived == PointsArrived
            n == Len(arrived)
        IN /\ n = Len(PointsBefore)
                + (IF PointsBefore # <<>> /\ PointsBefore[Len(PointsBefore)].price = e.price
                   THEN 0 ELSE 1)
           /\ AnalysedPrices = SubSeq(arrived, (IF n > 200 THEN n - 199 ELSE 1), n)
           /\ e.analysis.volumeResult
                  = detectVolumeSpike(tokenHistory, e.address, feed.market.volume,
                                      feed.market.priceChange1h)
           /\ e.analysis.momentumResult
                  = detectMomentumBack(tokenHistory, e.address, e.price,
                                       feed.market.priceChange1h,
                                       feed.market.priceChange24h)
           /\ e.analysis.freshResult
                  = detectFreshToken(tokenHistory, e.address, feed.market.liquidity,
                                     feed.market.volume, feed.market.marketCap,
                                     feed.market.priceChange24h)

\* C29 witness: a 201st point arrived; the oldest point was dropped and the
\* new point is the last of the 200 stored.
C29_Witness ==
    /\ Analysed
    /\ Len(PointsArrived) = 201
    /\ Len(AnalysedPrices) = 200
    /\ AnalysedPrices[1] = PointsArrived[2]
    /\ AnalysedPrices[200].timestamp = strategyEvent[1].at

\* An update with the price of the last stored point added no point.
C29_FlatTickSkipped ==
    /\ Analysed
    /\ PointsBefore # <<>>
    /\ AnalysedPrices = PointsBefore

\* C30: an analysis made at time `at` evicts exactly the other tokens'
\* histories with at - lastSeen > 30 minutes and leaves the others as they
\* were; the analysed token's history is kept; the seen-cache is not touched,
\* whichever histories are evicted.
C30_EvictedAfterThirtyMinutes ==
    /\ seenPairs = loadCache(cacheFile)
    /\ Analysed =>
        LET e == strategyEvent[1] IN
        /\ has(tokenHistory, e.address)
        /\ get(tokenHistory, e.address).lastSeen = e.at
        /\ \A i \in 1..Len(e.before) :
               e.before[i].key # e.address =>
                   IF e.at - e.before[i].value.lastSeen > 30 * 60 * 1000
                   THEN ~has(tokenHistory, e.before[i].key)
                   ELSE /\ has(tokenHistory, e.before[i].key)
                        /\ get(tokenHistory, e.before[i].key) = e.before[i].value

\* C30 witness: an analysis evicted the history of a token last seen more
\* than 30 minutes before, and the seen-cache still holds that token.
C30_Witness ==
    /\ Analysed
    /\ \E i \in 1..Len(strategyEvent[1].before) :
           /\ ~has(tokenHistory, strategyEvent[1].before[i].key)
           /\ has(seenPairs, strategyEvent[1].before[i].key)

\* A history last seen exactly 30 minutes before an analysis was kept, of a
\* token the seen-cache does not hold.
C30_KeptAtThirtyMinutes ==
    /\ Analysed
    /\ \E i \in 1..Len(strategyEvent[1].before) :
           /\ strategyEvent[1].before[i].key # strategyEvent[1].address
           /\ strategyEvent[1].at - strategyEvent[1].before[i].value.lastSeen
                  = 30 * 60 * 1000
           /\ has(tokenHistory, strategyEvent[1].before[i].key)
           /\ ~has(seenPairs, strategyEvent[1].before[i].key)

(* ------------------------------------------- claims: the fetch layer, again *)
\* The breaker is Open and its cooldown has not elapsed.
CoolingDown ==
    /\ circuitBreaker.state = OPEN
    /\ now - circuitBreaker.lastFailureTime < timeout

\* This step issues a fetch(): a sleeping call starts its next attempt, or
\* process() starts the function of a waiting call.
StartsNetworkAttempt ==
    \/ \E call \in BagToSet(active) : Wake(call)
    \/ lastStarted' # <<>>

\* C35: while the breaker is Open and its cooldown has not elapsed, no step
\* starts a network attempt, whether of a new call or of a call admitted
\* earlier that waits in the queue or sleeps between two attempts.
C35_NoAttemptWhileOpen == [][CoolingDown => ~StartsNetworkAttempt]_vars

\* C37: a fetchWithRetry call refused for its invalid URL leaves the circuit
\* breaker and the request queue as they were, in every breaker state.
C37_InvalidUrlChangesNothing ==
    [][lastReturn'.via = "invalidUrl"
          => /\ circuitBreaker' = circuitBreaker
             /\ requestQueue' = requestQueue]_vars

\* C38: activeRequests is the number of calls started whose finally callback
\* has not run, between 0 and maxConcurrent; a call that sleeps between two
\* attempts is among them; and with no call outstanding the queue is empty
\* and activeRequests is 0.
C38_SlotAccountingExact ==
    /\ requestQueue.activeRequests = BagCardinality(active)
    /\ requestQueue.activeRequests >= 0
    /\ requestQueue.activeRequests
          >= Cardinality({call \in BagToSet(active) : call.pc \in {"running", "sleeping"}})
    /\ Outstanding = 0 => (requestQueue.queue = <<>> /\ requestQueue.activeRequests = 0)

\* C38 witness: every call has finished, one of them after its last attempt
\* failed, and no slot is held.
C38_Witness ==
    /\ Outstanding = 0
    /\ requestQueue.activeRequests = 0
    /\ circuitBreaker.failureCount = 1

\* All slots are held, one of them by a sleeping call, while a call waits.
C38_SleeperKeepsSlot ==
    /\ requestQueue.activeRequests = maxConcurrent
    /\ Len(requestQueue.queue) > 0
    /\ \E call \in BagToSet(active) : call.pc = "sleeping"

\* C36: once the upstream has recovered, with calls still being made, the
\* breaker eventually is Closed and stays Closed, whatever state it was in.
C36_BreakerRecovers ==
    [](env.failures = 0 => <>[](circuitBreaker.state = CLOSED))

\* C36 witness: after the upstream recovered, the breaker went from Open
\* through HalfOpen, its cooldown elapsed, to Closed on successThreshold
\* successes.
C36_Witness ==
    /\ env.failures = 0
    /\ circuitBreaker.state = CLOSED
    /\ halfOpenRun = successThreshold
    /\ lastFailureAt > 0
    /\ now - lastFailureAt >= timeout
    /\ now > StartTime + BreakerTicks * TickMs

(* ---------------------------------------------------- claims: the dispatcher *)
\* sendMessage calls made so far for message m.
SendAttempts(m) ==
    Len(sendCalls[m].outcomes) + (IF sendCalls[m].pc = "sending" THEN 1 ELSE 0)

SendReturned(m) == m \in DOMAIN sendCalls /\ sendCalls[m].pc = "returned"

\* C34: sendWithRetry makes at most 3 send attempts for a message and never
\* reaches attempt 4; it returns true exactly on the first attempt that
\* succeeds and false exactly after the 3rd failure; every call returns.
C34_SendRetryTerminates ==
    /\ [](\A m \in DOMAIN sendCalls :
            LET call == sendCalls[m]
                n == Len(call.outcomes)
            IN  /\ SendAttempts(m) <= 3
                /\ call.attempt \in 1..3
                /\ call.pc = "returned" <=> call.returned # "none"
                /\ call.returned = "true" <=>
                     /\ n >= 1
                     /\ call.outcomes[n] = "ok"
                /\ \A i \in 1..(n - 1) : call.outcomes[i] # "ok"
                /\ call.returned = "false" <=>
                     call.outcomes = <<"rejected", "rejected", "rejected">>)
    /\ \A m \in 1..MaxMessages :
         [](m \in DOMAIN sendCalls => <>SendReturned(m))

\* C34 witness: one message returned false after its 3rd failure, another
\* returned true on its 2nd attempt.
C34_Witness ==
    \E m1, m2 \in DOMAIN sendCalls :
        /\ sendCalls[m1].returned = "false"
        /\ sendCalls[m1].attempt = 3
        /\ sendCalls[m2].returned = "true"
        /\ sendCalls[m2].outcomes = <<"rejected", "ok">>

(* ---------------------------------------------- claims: the trending scanner *)
\* C31: every candidate a scan has handled was fed to the strategy engine in
\* that scan, whatever processTrendingToken made of it.
C31_EveryObservationAnalysed ==
    \A s \in DOMAIN trendScans :
        \A j \in 1..Len(trendScans[s].results) : j \in trendScans[s].analysed

\* C33: a scan that has ended handled every candidate of its tick, an
\* exception on one candidate included; the interval timer is set once the
\* initial scan is over, and a set timer can always start the next scan.
C33_ErrorsIsolatedPerToken ==
    /\ \A s \in DOMAIN trendScans :
         LET scan == trendScans[s]
         IN  /\ scan.pc = "done" => Len(scan.results) = Len(scan.allTrending)
             /\ scan.pc = "sleeping" => Len(scan.results) = scan.i
             /\ scan.pc = "token" => Len(scan.results) = scan.i - 1
    /\ (\E s \in DOMAIN trendScans : trendScans[s].first /\ trendScans[s].pc = "done")
         => poll.timer
    /\ (poll.timer /\ Len(trendScans) < env.calls) => ENABLED IntervalFires

\* C33 witness: a scan ended in which the first candidate raised an exception
\* and the two after it were handled, and a later scan has started.
C33_Witness ==
    \E s, t \in DOMAIN trendScans :
        /\ s < t
        /\ trendScans[s].pc = "done"
        /\ Len(trendScans[s].results) = 3
        /\ trendScans[s].results[1] = "error"
        /\ trendScans[s].results[2] = "alerted"

C40_FirstScanCollectsOnly ==
    /\ FirstScanRunning => trendLedger.sent = {}
    /\ \A alert \in trendLedger.sent :
         /\ ~alert.first
         /\ ~alert.during
         /\ ~alert.collected
    /\ \A k \in trendLedger.collected :
         /\ hasKey(seenTokens, k)
         /\ trendLedger.alerts[k] = 0

\* C40 witness: the initial scan let the Hot token through without an alert;
\* a later scan skipped Hot as seen and alerted a token that was new to it.
C40_Witness ==
    \E s, t \in DOMAIN trendScans :
        /\ trendScans[s].first
        /\ trendScans[s].pc = "done"
        /\ \E j \in 1..Len(trendScans[s].results) :
             /\ trendScans[s].allTrending[j] = Hot
             /\ trendScans[s].results[j] = "quiet"
        /\ ~trendScans[t].first
        /\ \E j \in 1..Len(trendScans[t].results) :
             /\ trendScans[t].allTrending[j] = Hot
             /\ trendScans[t].results[j] = "seen"
        /\ \E alert \in trendLedger.sent : alert.kind = "takeover"

(* ------------------------------------------ claims: the strategy engine, again *)
\* C32: when an analyzeTokenStrategies call completes, every price point the
\* token's history held just before, live points of an interleaved call
\* included, is still in the history (the 200-point cap aside).
C32_NoLostUpdate ==
    strategyEvent # <<>> =>
        LET event == strategyEvent[1]
            kept == get(tokenHistory, event.address).prices
        IN  (has(event.before, event.address) /\ Len(kept) < maxPricePoints) =>
              \A point \in Range(get(event.before, event.address).prices) :
                  point \in Range(kept)

====
